---- MODULE Spec2Model ----
(***************************************************************************)
(* State-machine model of the two scripts of the repository:               *)
(*   - bringup/spawn_demo.py: CreateWorld and its main()                   *)
(*   - py_srvcli/client_member_function.py: MinimalClientAsync and main()  *)
(* Lengths are integers in micrometres (1 m = 1000000), so that the        *)
(* literal coordinates of the source are exact.                            *)
(***************************************************************************)
EXTENDS Integers, Sequences, FiniteSets

VARIABLES
    pc,             \* spawn_demo: position of main() / CreateWorld.__init__
    tape_i,         \* spawn_tape: loop variable i
    num_golfballs,  \* spawn_golfballs: num_golfballs
    ball_i,         \* spawn_golfballs: loop variable i
    pose,           \* spawn_golfballs: the one pose dict reused by all iterations
    iters,          \* spawn_golfballs: iterations of the inner while loop for ball_i
    draws,          \* spawn_golfballs: (x, y) draws made so far in the run
    rng,            \* random: the state of the generator
    golfballs,      \* self.golfballs
    spawn_calls,    \* SpawnEntity requests passed to call_async, in issue order
    spawn_futures,  \* state of the future of each SpawnEntity request
    send_calls,     \* SendGolfBallPoses requests passed to call_async
    send_futures,   \* state of the future of each SendGolfBallPoses request
    callbacks,      \* done-callbacks that have run: <<service, index>>
    spins,          \* spawn_demo: calls of rclpy.spin_once made by main()
    log,            \* spawn_demo: the start message and the done-callbacks' messages
    c_pc,           \* minimal client: position of main()
    argv,           \* minimal client: sys.argv[1:], each argument a sequence of characters
    req,            \* minimal client: self.req
    future,         \* minimal client: self.future
    reply,          \* minimal client: what the add_two_ints service has sent back
    rclpy_ok,       \* minimal client: rclpy.ok()
    cli_calls,      \* minimal client: AddTwoInts requests passed to call_async
    teardown,       \* minimal client: destroy_node / shutdown calls, in order
    c_log           \* minimal client: outcome messages logged by main()

worldVars == <<pc, tape_i, num_golfballs, ball_i, pose, iters, draws, rng,
               golfballs, spawn_calls, spawn_futures, send_calls, send_futures,
               callbacks, spins, log>>

clientVars == <<c_pc, argv, req, future, reply, rclpy_ok, cli_calls, teardown, c_log>>

vars == <<worldVars, clientVars>>

----------------------------------------------------------------------------
(* Bounds of the model. *)

\* random.random() is modelled over the grid {0, 1/GridSize, .., (GridSize-1)/GridSize}
GridSize == 64

\* the states the generator of random is in when the program starts are those
\* random.seed(0) .. random.seed(NumSeeds - 1) leave it in
NumSeeds == 128

\* the longest command-line argument, in characters
MaxArgLen == 2

----------------------------------------------------------------------------
(* Program constants. *)

MinGolfballs == 30
MaxGolfballs == 60
FieldFeet == 75

Metre == 1000 * 1000

----------------------------------------------------------------------------
(* helpers.functions (not among the source files) *)

\* feet_to_meters(feet): 1 ft = 0.3048 m
feet_to_meters(feet) == (feet * 3048 * (Metre \div 1000)) \div 10

\* euler_to_quaternion(0, 0, yaw) for the yaw angles the script uses (degrees)
euler_to_quaternion(roll, pitch, yaw) ==
    CASE yaw = 90  -> [x |-> 0, y |-> 0, z |-> 707107,  w |-> 707107]
      [] yaw = 180 -> [x |-> 0, y |-> 0, z |-> 1000000, w |-> 0]
      [] OTHER     -> [x |-> 0, y |-> 0, z |-> 0,       w |-> 1000000]

----------------------------------------------------------------------------
(* Strings built by the script *)

Digit(d) == CASE d = 0 -> "0" [] d = 1 -> "1" [] d = 2 -> "2" [] d = 3 -> "3"
              [] d = 4 -> "4" [] d = 5 -> "5" [] d = 6 -> "6" [] d = 7 -> "7"
              [] d = 8 -> "8" [] OTHER -> "9"

RECURSIVE Decimal(_)
\* str(i) of a non-negative int, as the sequence of its digits
Decimal(i) == IF i < 10 THEN <<Digit(i)>> ELSE Append(Decimal(i \div 10), Digit(i % 10))

\* f'tape{i}'
TapeName(i) == <<"tape">> \o Decimal(i)

\* f'ball{i}'
BallName(i) == <<"ball">> \o Decimal(i)

\* f'border{i}'
BorderName(i) == <<"border">> \o Decimal(i)

----------------------------------------------------------------------------
(* CreateWorld.spawn *)

\* the default geometry_msgs Quaternion of a new SpawnEntity.Request
DefaultOrientation == [x |-> 0, y |-> 0, z |-> 0, w |-> Metre]

\* the request spawn(name, xml, pose) builds
SpawnRequest(name, xml, p) ==
    [name        |-> name,
     xml         |-> xml,
     position    |-> [x |-> p.x, y |-> p.y, z |-> p.z],
     orientation |-> IF "orientation" \in DOMAIN p THEN p.orientation
                     ELSE DefaultOrientation]

\* spawn(name, xml, pose): build the request, call_async, add_done_callback
spawn(name, xml, p) ==
    /\ spawn_calls' = Append(spawn_calls, SpawnRequest(name, xml, p))
    /\ spawn_futures' = Append(spawn_futures, "pending")

----------------------------------------------------------------------------
(* random *)

\* the empty dict
EmptyDict == [k \in {} |-> 0]

\* d[k] = v on a dict
DictSet(d, k, v) == [j \in DOMAIN d \cup {k} |-> IF j = k THEN v ELSE d[j]]

\* the generator of random is the Mersenne Twister of the Python library, a
\* stream of 32-bit words: row a + 1 holds the leading WordBits bits of each of
\* the first words after random.seed(a)
MersenneTwister ==
    <<
    \* random.seed(0)
    <<
      14167047, 6463343, 12716364, 14935814, 7056020, 679215, 4343902,
      16197812, 8577766, 8152513, 6793667, 15405415, 13149958, 13922621,
      5088743, 16236989, 7995970, 6007071, 9787526, 14959583, 15235606,
      3664860, 8467240, 2336625, 4728454, 2344545, 12680290, 1590996,
      10374510, 13411749, 4202798, 16563460, 15263009, 8934935, 16488404,
      11830827, 13593189, 10098241, 15135833, 2465603, 5203412, 1656973,
      12244544, 1237192, 15080004, 14268583, 11475346, 5539790, 7921240,
      9392115, 1689485, 5935633, 7284194, 5304900, 10248982, 10744521,
      15317783, 3430567, 16216963, 9269809, 8002896, 7427162, 14517491,
      8746862, 4370335, 1044878, 13506125, 15409283, 9205646, 15367837,
      235580, 1564842, 12074640, 14094391, 6691148, 11916075, 13838602,
      13170915, 11209750, 10490219, 19173, 10265929, 8280862, 13892596,
      14555959, 5589080, 4092145, 12252041, 5456023, 11805162, 14604083,
      1056700, 3205573, 15385025, 9521250, 3719574, 4003310, 13477893,
      16232631, 2390659, 13475115, 9109859, 7515682, 1530349, 1349656,
      16663492, 5369625, 14681528, 8521829, 16743185, 15650354, 8208870,
      1829687, 5057437, 9248729, 4883691, 11854133, 2093976, 9184534,
      5582627, 13664486, 15472782, 9064454, 3409161, 16170527, 13412161,
      10119775, 9180997, 9858578, 4826088, 7465677, 1537331, 10004033,
      13387128, 6457569, 5319163, 9657821, 4061884, 4870920, 3084805,
      3177459, 13781932, 3132801, 553185, 10280627, 16463477, 11016916,
      4363019, 7994863, 1159058, 1507002, 11387098, 12710484, 2184803,
      14709765, 2509038, 15491762, 648297, 14134137, 1346343, 15068844,
      11732689, 15486753, 13914366, 9069761, 11467200, 6564858, 14057045,
      11832691, 8800890, 4624373, 8754185, 13616870, 3951063, 14252009,
      3610478, 15016262, 11399688, 9895221, 13845620, 15934410, 7036754,
      9725668, 4617271, 7559194, 8265385, 11077079, 10757497, 16714432,
      11747834, 15383720, 16482950, 13309786, 5995632, 1381989, 5441267,
      10280794, 1935247, 8161179, 9849479, 10572118, 5624905, 14178049,
      3194027, 4077461, 271942, 12272352, 4547262, 1965187, 11833526,
      3698714, 6242134, 13330890, 2860209, 5579030, 7149294, 13688750,
      1043416, 1687914, 13138548, 2455487, 14349932, 11704971, 3670411,
      758901, 13709003, 9627874, 10640217, 15267535, 15712193, 8962354,
      10102744, 11418390, 1241461, 447897, 2087819, 10653530, 3162851,
      10172670, 13926534, 9662887, 2008156, 6563404, 1535649, 6209917,
      13989588, 16450339, 1946931
    >>,
    \* random.seed(1)
    <<
      2254257, 9549656, 14217578, 13459774, 12814011, 1058756, 4279348,
      1978347, 8312021, 12766831, 7541208, 7922960, 10931916, 6368886,
      13232582, 3522457, 1574702, 8184876, 475591, 14987372, 14021811,
      6539906, 7260626, 10191118, 12788937, 12870769, 35333, 11674138,
      7472357, 4468285, 12105432, 13452414, 3837993, 9917908, 15859010,
      1715087, 15123443, 5325585, 513214, 374502, 426910, 10897575, 9083394,
      154433, 15756308, 14784650, 6395545, 11517287, 3633934, 16257804,
      7081940, 12177785, 487223, 8852152, 3719368, 12812776, 7346534,
      15756607, 8318349, 9275444, 3910508, 5799890, 3873297, 11355634,
      3670536, 12766584, 7710866, 15976010, 4861728, 15544201, 360537,
      6982340, 14052226, 15372456, 9335754, 15471756, 10775911, 1677726,
      3118989, 10558789, 16652115, 12140647, 14427508, 4972605, 2028196,
      12467932, 5581698, 15025261, 12104499, 16328463, 11931817, 8402024,
      15710865, 16227095, 7081780, 8518081, 13925688, 15270371, 11245861,
      3185149, 5089679, 4767403, 9857966, 16331804, 14805540, 8377905,
      14196836, 15785908, 8477255, 6599378, 9881818, 14315796, 579247,
      8056871, 4072500, 12477729, 13378223, 6782828, 6951035, 11152545,
      2902582, 6159315, 9207315, 14809785, 11795066, 13016395, 11315994,
      12385200, 6286473, 1450685, 7364554, 11136008, 8529981, 1810786,
      13060099, 2746401, 8739896, 14092048, 6597725, 6216338, 8215693,
      12293770, 496185, 7873885, 729595, 5176264, 11800793, 14232138,
      16495152, 10314812, 9951971, 9700182, 6603506, 10857478, 2857985,
      2828542, 8426164, 3807376, 16476511, 206386, 12927233, 3347329,
      9053278, 15436488, 14433267, 9199592, 3895269, 6785626, 8619658,
      5768441, 15979751, 14218036, 9693788, 5926956, 7702952, 15263156,
      4517759, 11059789, 9193852, 10216398, 16057746, 12237304, 95783,
      6437243, 13147553, 14377220, 13765469, 16016307, 14867626, 15744732,
      12423585, 8598322, 13575114, 2168445, 8701977, 13042560, 9418022,
      3447470, 7148615, 15933645, 941592, 8071549, 14596348, 6119255,
      9563001, 9301308, 3352749, 15787586, 8467804, 6935701, 8135693,
      13645773, 5985942, 6952889, 5806224, 26587, 9034175, 9061534, 10460417,
      13194347, 10275247, 5555564, 7686427, 10063900, 469342, 13498436,
      3852133, 10659758, 2973111, 9240156, 9805626, 3033052, 14445331,
      1536816, 13395582, 9244734, 13373077, 14282007, 13697546, 15618749,
      4283123, 544573, 14122134, 15830481, 11292971, 1182013, 1396437,
      14563933
    >>,
    \* random.seed(2)
    <<
      16039593, 14480571, 15901906, 14244783, 948774, 1536537, 1423915,
      6057539, 14017345, 2836752, 12347527, 13572130, 11236211, 14324963,
      5169671, 4220867, 10166056, 3560440, 10180443, 599524, 9750985,
      11429414, 2657223, 16772498, 7225437, 10711771, 6602368, 13483335,
      12130129, 14432501, 16690302, 8540734, 15928212, 6242135, 9129775,
      15698637, 7463414, 8423291, 4500332, 15119757, 602710, 14613508,
      460448, 6107148, 7799624, 15633790, 5342958, 15229519, 6375592,
      7107012, 14961744, 14832142, 8820667, 2759657, 9403803, 2976889,
      3961493, 3868870, 400272, 2964869, 5454993, 2912336, 2293401, 8559176,
      8560135, 6034620, 16755129, 8619083, 11315891, 9393400, 3050827,
      16696310, 14991642, 7476558, 13367413, 6957024, 12321215, 8814174,
      15210117, 15241732, 12799094, 6111193, 13249766, 9957035, 5935560,
      6071445, 16458055, 14411071, 16138019, 7478762, 2704229, 16021119,
      12650089, 6708596, 11998241, 12391487, 7741119, 10987582, 8897892,
      4192655, 8221069, 4682558, 15516107, 8356151, 8402718, 8646846,
      13950665, 13358291, 5937862, 11101242, 14811780, 7628411, 15094471,
      15152789, 7734500, 5885024, 9524510, 12178332, 15440582, 9354687,
      12142895, 7659656, 8163936, 11054261, 3721371, 15780590, 5447012,
      13668123, 11736864, 14009418, 2786186, 14708521, 15232713, 10340571,
      4498600, 12968520, 15290382, 8049140, 5193607, 5088474, 16061864,
      13409338, 11848167, 13943004, 8459891, 9431961, 8686365, 8512032,
      10928920, 10331547, 9864075, 6822799, 5231879, 12262968, 3486615,
      8202489, 8588116, 6150497, 15672509, 11479505, 10456652, 14798671,
      1264588, 13158032, 13764027, 5728730, 12179408, 141294, 15227900,
      13674429, 3211204, 16728035, 12495380, 1781017, 985810, 9637083,
      10954010, 820575, 4581853, 9927084, 3801994, 11450075, 14688304,
      15365261, 1782847, 12656224, 8763791, 2290088, 14326786, 4460075,
      4107598, 13836967, 3531250, 15830661, 14773710, 1013089, 7095380,
      15065400, 12028611, 12740770, 534741, 952885, 6079340, 6043463,
      2883684, 4185943, 11287131, 393303, 1390884, 1933122, 16014895,
      1131901, 425213, 685761, 12237695, 15412054, 354752, 6259533, 4289767,
      2143912, 13645822, 15702891, 2636007, 12327680, 3082625, 8776017,
      11601368, 32484, 6468722, 9889468, 724121, 13323758, 16609469, 4157847,
      2540407, 16287610, 608492, 70399, 5774734, 15744813, 10322005,
      10532002, 12456405, 12543962, 1897753, 4798730, 5657508, 8200049
    >>,
    \* random.seed(3)
    <<
      3992383, 9942864, 9130651, 2188131, 6206817, 15367003, 10132096,
      7953298, 10497844, 9745080, 1099391, 10160274, 220922, 15247442,
      14050399, 7872412, 4351238, 9240632, 3931421, 3216932, 16704148,
      12031747, 7889712, 9076035, 14033494, 9221280, 7991880, 6662812,
      10721784, 14445553, 2526924, 3891005, 10651194, 2543801, 14563383,
      15532941, 8777524, 6542052, 12436142, 254120, 11264415, 13039834,
      1074269, 2674287, 12720992, 16064135, 9917005, 717880, 5054432,
      13087511, 520290, 13817220, 14521137, 4520313, 7931413, 9978241,
      12059864, 15437666, 14744032, 6502992, 11981104, 13222272, 15453471,
      7162778, 6626386, 12215926, 13437019, 9678938, 7459503, 16174809,
      15696540, 2250648, 14744935, 6132402, 1635012, 602077, 2281178,
      8302765, 3640436, 4328206, 16198068, 11274980, 7317581, 13068991,
      10513413, 14348304, 5050381, 7065699, 8510125, 13983425, 6473761,
      9630503, 5887301, 8960762, 9815914, 6837988, 9802118, 3898798,
      15169988, 5649979, 11441761, 15363413, 15585121, 480841, 14368017,
      4692347, 16626047, 10163960, 11262101, 11669651, 2736357, 11720829,
      14439101, 5475920, 16183855, 9089324, 15178279, 9595822, 9548039,
      1746102, 11975862, 10997652, 3542089, 10619573, 13952065, 16577097,
      9622276, 4480941, 4780792, 2087670, 1064691, 8086641, 14326777,
      10716588, 16606189, 8111930, 1485087, 5772707, 13431760, 1117564,
      6886406, 15050776, 2529423, 337647, 4930676, 7166249, 12898187,
      6965854, 14642600, 1995100, 741386, 10150021, 10310144, 12778107,
      753972, 6338512, 12053431, 9837741, 5552489, 9241753, 14779138,
      15466619, 16452337, 4682076, 8479546, 3958610, 16752200, 604195,
      5195401, 121345, 1291354, 1813940, 10062350, 8985510, 526431, 15919824,
      3311568, 16297868, 6844032, 4892444, 10241938, 4418669, 2620584,
      11571800, 711954, 16439763, 14558916, 5701129, 5265202, 6043095,
      16083636, 2320725, 15043452, 14457050, 6338251, 6320836, 7724391,
      14594357, 8725376, 6479242, 10802660, 14543036, 9993352, 11424794,
      9382843, 1720886, 10403990, 16322273, 15781005, 13614912, 8506498,
      4551669, 7234193, 10641627, 12084817, 12006134, 3986864, 15710787,
      5051399, 7339121, 16404716, 4332428, 8743065, 5083381, 9201136,
      5685933, 192224, 13227097, 6966073, 16566761, 9730201, 5282749, 336431,
      6316899, 10331375, 9885188, 10606229, 2235873, 1007983, 10628917,
      10525037, 5577599, 7822384, 5920945, 11396450, 15390387, 5915260,
      10215041
    >>,
    \* random.seed(4)
    <<
      3960229, 5088505, 1730838, 12100011, 6644754, 8034246, 2600003,
      1511631, 1115938, 332477, 6737579, 9217433, 15400730, 4854919,
      13429361, 16609860, 12837298, 987289, 3723336, 8729844, 9003996,
      6043906, 4641964, 13081959, 2896830, 13872604, 1781460, 4390925,
      3597042, 15820232, 15560459, 430162, 13906970, 10748971, 13533380,
      4366340, 13429286, 4559170, 3245311, 2765191, 5198419, 4859364,
      10518905, 14551242, 12279155, 16121612, 14338620, 14235958, 14764801,
      6247719, 1454890, 14173211, 10164507, 5660674, 11269280, 6508416,
      8488495, 4175405, 2982824, 4149378, 7945486, 4697580, 1498980,
      15847385, 15679790, 13721797, 14520414, 15807614, 9187855, 14100623,
      5037287, 120986, 15248313, 4897968, 9602721, 11826375, 14802826,
      5230501, 14227818, 12838056, 8529073, 3273657, 6944862, 7109027,
      10048083, 4835253, 7231701, 7572772, 2706510, 3912869, 5118923,
      4356290, 13633036, 13377998, 725421, 1360220, 777154, 7762310,
      10508421, 16734802, 4704888, 8705229, 8969465, 10871603, 7906096,
      11758793, 5751955, 2433749, 16731563, 11304132, 3281178, 1114652,
      6925545, 15326520, 3400248, 10653852, 10614357, 7401301, 4635625,
      3082035, 5969849, 7313596, 12531618, 9877899, 5379931, 10644005,
      9370561, 3333837, 15171889, 5428003, 1694153, 14083237, 1033648,
      11880995, 3839792, 4655321, 12837292, 9767702, 10325236, 14463621,
      3983199, 2049259, 5554382, 15679663, 2978621, 4880899, 7701056, 430773,
      718252, 5990876, 11698616, 1385971, 15031173, 16181200, 16017838,
      4793017, 12329206, 11328198, 16103905, 5488199, 305136, 5415857,
      4848556, 5396829, 16206904, 2565397, 13006359, 10937446, 6885833,
      14451442, 15826088, 14587898, 10410438, 11409240, 13722551, 1304534,
      4922607, 10363783, 3211414, 15000234, 7451470, 4898868, 2289043,
      4195098, 6402766, 10046359, 16136554, 2665977, 5558412, 9614855,
      157646, 6095579, 751572, 7630031, 2844862, 6126885, 13149070, 13494738,
      6085503, 16729992, 4871000, 9587436, 1629104, 7370680, 16471009,
      3476855, 7112742, 15376818, 3488265, 1906197, 995552, 1043697, 927287,
      12366845, 2829817, 9991416, 11355274, 16284281, 2510551, 10175674,
      686060, 9164219, 8232036, 9775497, 4178510, 5392750, 16737563, 596831,
      2051404, 14006466, 8879200, 4914170, 12982077, 16725303, 6867270,
      10932238, 16570141, 3359829, 8015515, 3385184, 4057773, 7362080,
      6889102, 8253361, 618562, 3675242, 7066915, 7440730
    >>,
    \* random.seed(5)
    <<
      10450556, 4285656, 12445120, 6015227, 13341134, 11583775, 15811691,
      14118211, 12413438, 10939276, 15474045, 8892593, 486626, 14098701,
      7811851, 13018424, 15826899, 4178410, 10887986, 869953, 15114602,
      2631528, 1899280, 6237657, 7869672, 14570097, 4136805, 6388057,
      9122793, 1710846, 9629135, 4183075, 220019, 12267227, 3636122, 6847638,
      4688936, 3054722, 15373724, 14553548, 12846741, 6533673, 2677714,
      12782987, 13373907, 1206814, 2328130, 10367081, 10359134, 7463104,
      2125660, 2218633, 29777, 16313112, 14619745, 89139, 3514094, 12978748,
      3615174, 16108259, 16482291, 2782609, 14636573, 2793146, 4853735,
      5262196, 16130923, 3336809, 9046668, 14698836, 11372108, 10498010,
      3435630, 3047894, 15786957, 16249686, 11587049, 3303082, 16216258,
      16191630, 14994497, 6429423, 5012845, 361888, 6059761, 6960979,
      2784280, 15699995, 2444472, 4426029, 1092863, 5567594, 5055966,
      13713701, 10118506, 9833818, 56759, 9998867, 11373849, 11872835,
      5668968, 1107672, 5200231, 5961806, 13732454, 5134906, 8065565,
      11683985, 5298129, 3099980, 8073504, 7927877, 11822386, 2954804,
      956316, 4298017, 16359455, 15754003, 383620, 15925276, 12579473,
      6000271, 14174749, 6782929, 303122, 9211797, 13216055, 7026755,
      6143556, 6314363, 9705935, 14113566, 152310, 7597096, 783950, 11874213,
      3035325, 10464168, 16025259, 16012082, 3297086, 1996833, 12679153,
      4128651, 15597028, 13748813, 15804872, 7754519, 5777768, 8598256,
      5952442, 14977206, 8803035, 4209302, 13012459, 7765330, 1812826,
      9894587, 12556035, 13102790, 13375244, 6162224, 14423277, 4963771,
      614575, 7264143, 15867893, 16413846, 1529744, 3497770, 5716677,
      8604699, 10247985, 6083846, 15402947, 2486310, 5703574, 4625082,
      15505463, 11787784, 9145999, 1544734, 5242047, 11508596, 5315021,
      5136698, 2977582, 13401197, 1311915, 10516055, 2497591, 12098638,
      11562430, 5189252, 16722301, 8116712, 2710014, 12081756, 814570,
      1358253, 16554064, 10077221, 8951160, 15495551, 6809671, 533959,
      3981847, 12424509, 9964998, 5768558, 13862938, 4197808, 7644791,
      10921404, 7075913, 2443249, 934612, 16425743, 15369093, 10709305,
      548970, 13449697, 8280633, 5606698, 14066509, 3473888, 2190631,
      16463490, 12275292, 9463148, 15934975, 2227628, 10576345, 15040707,
      13220606, 6942788, 1788964, 2832344, 7290626, 6257861, 2503921, 986007,
      14172283, 7057265, 4946140, 2368983, 7602677, 15468649
    >>,
    \* random.seed(6)
    <<
      13310037, 9627103, 13790100, 1351733, 8137530, 12787876, 4389280,
      617783, 7578, 2442393, 11120250, 9839575, 7889557, 16198700, 12746164,
      12328506, 6260592, 5358402, 12920802, 367249, 4575114, 8201395,
      13453909, 3323682, 12244428, 14638243, 6945875, 15276874, 9031262,
      9047121, 11442929, 1580585, 3237748, 9452586, 9288121, 11736060,
      13507740, 12228710, 4454704, 11121617, 13478233, 10234890, 11503967,
      1478224, 14164706, 7125272, 5630131, 16613408, 1562539, 6075710,
      13426516, 6877733, 13501993, 4202468, 7469424, 11737691, 1573373,
      12676341, 3307830, 11756587, 10652170, 13361557, 4885249, 1636632,
      15961390, 766435, 9874562, 15145863, 3370111, 13889927, 10995854,
      15312159, 6046165, 8165505, 15648733, 13970775, 15259065, 3250132,
      8634413, 9661710, 10814120, 16274445, 11708992, 14972128, 13514130,
      8450526, 16380854, 15372856, 476841, 10628004, 6062890, 4108668,
      10095643, 7208978, 5105716, 5995835, 9884409, 2006297, 1504705,
      8391244, 14765272, 11385294, 8812453, 3340770, 1959988, 10204043,
      11118951, 4494358, 5239200, 12062874, 3292094, 6372099, 8115882,
      3736935, 2317026, 10021755, 3521290, 13992262, 14521338, 14696584,
      11714250, 8760064, 210096, 3166643, 13053638, 2837745, 286198,
      10871421, 5585337, 9357421, 15173949, 11263484, 10406324, 10378693,
      5135917, 6285284, 6331801, 8847864, 6529115, 4851118, 2127933,
      11387192, 16775179, 8199995, 902985, 3109639, 7094894, 9964491,
      12521054, 16749156, 6673377, 1610303, 16458004, 7403002, 4115636,
      13516814, 16429190, 1494130, 14969588, 10119705, 11244377, 14604147,
      14923544, 7484524, 7502673, 13151798, 13946220, 6375653, 13356322,
      1282967, 8668563, 7154153, 7900891, 5091243, 11839227, 13699140,
      6862951, 15782749, 1441680, 3223664, 12524458, 11411521, 4459714,
      7572533, 8181644, 12123674, 13153828, 16191252, 2887830, 311065,
      366974, 9025173, 2071907, 4213388, 9888752, 13451603, 6057399, 3146719,
      4300205, 8434519, 7575470, 5527088, 15562497, 8671682, 4274220,
      16467864, 6888248, 15551303, 14752103, 7075671, 10270628, 8143737,
      4495245, 10108025, 7964294, 11010678, 8028551, 8254761, 2385468,
      12100984, 6333031, 8332409, 5128350, 10644617, 13501313, 7839342,
      5425588, 6148464, 11060264, 2735207, 16286752, 15319246, 15486685,
      10392525, 6308951, 11650976, 10117188, 4459451, 5370605, 10839742,
      6682055, 16358030, 8187260, 12235718, 13311697, 2653940, 15713747,
      13886336
    >>,
    \* random.seed(7)
    <<
      5433012, 15902541, 2530829, 6624039, 10920868, 810111, 1215279,
      13778696, 8990608, 1579240, 6135241, 9777560, 973060, 15262301,
      8513358, 3602037, 629072, 1441955, 7275367, 7015764, 1171979, 4037655,
      1521911, 9245038, 7122250, 991709, 13872276, 9486738, 2077052,
      15895568, 3745328, 10580147, 10526582, 9781064, 15899917, 1037872,
      9682180, 9823754, 6655194, 831970, 16378842, 3709137, 781527, 9339287,
      14402710, 2234302, 4858837, 7031986, 2420198, 9071203, 1976225,
      9578342, 5175466, 9399557, 13692328, 11442106, 3032085, 1728987,
      9757631, 9583219, 10719189, 3151952, 6247794, 1634613, 9189627,
      11947236, 1053424, 9468528, 999941, 10385257, 3455413, 8328453,
      11415217, 8920785, 7173808, 13039735, 5270514, 7811503, 9824097,
      15492775, 7603172, 6066345, 5029255, 4167906, 13327476, 3015985,
      11727180, 13083370, 4095259, 1373299, 9637230, 5037344, 8811335,
      8306674, 14682370, 5762565, 12238061, 7530188, 4830794, 10216636,
      16444605, 1228106, 1980815, 8588807, 7014936, 2767604, 12702716,
      5738744, 2549877, 15657675, 8203439, 7074924, 657788, 16140001,
      11210801, 1302255, 12827370, 9362957, 9613779, 13238803, 14688080,
      13729690, 5263809, 5706306, 11665120, 5875018, 9971871, 8332820,
      9729027, 13369628, 7653855, 1153650, 14092320, 1570280, 15849118,
      4528829, 7954050, 11694425, 11142625, 1090518, 1017864, 12266818,
      11769083, 5194349, 10857020, 9696328, 16661385, 11429263, 13789609,
      7476611, 4774720, 12023019, 6472506, 14882066, 11218131, 5821782,
      378543, 15781464, 7745961, 5963698, 2819383, 10249529, 1964541,
      8282794, 989091, 3660918, 12888810, 4822307, 2169968, 12387681,
      4154287, 6675615, 6559047, 15381623, 14620034, 8330000, 1351929,
      2791163, 7536114, 6738472, 9218072, 4661367, 14820721, 2297239,
      13745234, 7222954, 14495254, 9231152, 4671130, 11851370, 6967519,
      16550171, 6019181, 11454192, 14834294, 6382745, 16068063, 3871367,
      2532032, 1392252, 2956442, 2538365, 3891590, 11048076, 3914729, 202384,
      8136324, 13943436, 9883852, 3059205, 4408156, 4730012, 68679, 2444044,
      7028755, 8968948, 6195046, 10230954, 9501629, 5345416, 15990329,
      2105398, 11584561, 14415016, 8648511, 15942112, 10361486, 10988513,
      11344754, 12411528, 905850, 7661210, 15091659, 14612611, 13085716,
      15970000, 14671896, 11418155, 13386089, 9383022, 6583025, 6678500,
      6693754, 6612236, 1737064, 8078612, 10641613, 6718312
    >>,
    \* random.seed(8)
    <<
      3803493, 6214479, 16144631, 6297654, 2119480, 3239959, 11824865,
      734480, 1429171, 2295844, 4151370, 13610752, 16762595, 8495317,
      3513109, 6722802, 10768765, 508244, 7702986, 8177249, 7602300, 6551133,
      8304431, 9615440, 3225098, 15054854, 13933834, 6755912, 1502661,
      8138618, 3928938, 12734314, 335398, 11763543, 4475615, 8727135,
      6839464, 7957819, 15134127, 15286698, 6359830, 12180291, 1908088,
      11122659, 4334506, 1630195, 16636327, 13660556, 1058452, 6482199,
      10404691, 13917241, 6328452, 1807391, 11087108, 973988, 5678057,
      3932901, 11598099, 1443761, 8348016, 15156402, 10900515, 8670652,
      15122562, 3488257, 9756564, 13562579, 2384679, 10179014, 1080008,
      9054929, 15872109, 628555, 8198468, 11774581, 3252330, 2486514,
      15871989, 14433649, 9713366, 7654825, 12229608, 9804040, 14780050,
      7468158, 4792465, 9350279, 5984378, 14345183, 14731679, 7149106,
      2264517, 2655829, 12822747, 10088339, 1637732, 8922257, 11579320,
      5264466, 11780045, 5989977, 15938350, 10802957, 14151463, 8298546,
      8449365, 10468743, 3315985, 5180658, 2519264, 5968311, 8870452,
      4770676, 8552870, 11023573, 1198242, 13558038, 15153527, 14373410,
      8513048, 15318687, 11765773, 9142507, 3690233, 5774758, 4091732,
      15232104, 199920, 4961134, 5758465, 3687486, 4476870, 564613, 7103504,
      4274378, 6323769, 5005534, 13997503, 11834578, 14956346, 6994750,
      2940223, 11030025, 6648205, 1950556, 2788065, 15645489, 11126170,
      14296014, 16355194, 430056, 3385780, 16325472, 12859312, 2695687,
      5033915, 1954262, 221754, 13361675, 12822795, 6382937, 5734719,
      14032407, 2854761, 9548346, 7308277, 15185605, 3887604, 2332677,
      6880352, 9462304, 7483533, 6830926, 7012231, 1344517, 9873537, 1173993,
      4844325, 12026647, 1595709, 570980, 1430356, 11126865, 1787166,
      12822491, 8739998, 8846358, 6042547, 2577926, 13550954, 15711224,
      8471207, 8191295, 11881244, 2491970, 16442872, 10140875, 1056526,
      3182299, 284242, 15311137, 2355365, 5717552, 6481591, 11042885,
      9624603, 2025830, 12478086, 5023282, 5896256, 5459884, 16189377,
      6141201, 49328, 10835505, 14020357, 8372159, 3524590, 1017806,
      14683070, 10355908, 555685, 14812688, 16192745, 14577781, 12740247,
      13564525, 16617159, 13697562, 9730917, 2885224, 2982956, 5662686,
      16271697, 7231513, 7407541, 2029225, 1398461, 3363151, 10156956,
      3757814, 8341766, 13612669, 7938772, 13257531, 2592406, 6393591
    >>,
    \* random.seed(9)
    <<
      7767974, 10288044, 6263134, 4481771, 2324305, 3122994, 14538495,
      11352195, 107962, 5676160, 8435283, 7779956, 15070939, 10145162,
      1355844, 5603992, 9299115, 15709947, 10345670, 11745700, 686117,
      12217038, 6358893, 2842298, 11802442, 15874860, 7583652, 15959682,
      12164578, 7089828, 2636659, 2825752, 3993182, 861242, 1861390, 2221732,
      8493785, 14625125, 15499291, 16625945, 9905745, 1062460, 12989079,
      11550119, 6436827, 13247204, 12517400, 14885819, 1705730, 15417513,
      4885157, 3438660, 11311803, 3763147, 12175332, 13304259, 7075881,
      14924609, 1471569, 12961745, 4475046, 15290407, 3521372, 6652886,
      4717491, 5732099, 13581335, 724687, 3346773, 11891702, 14871319, 88442,
      14753433, 6898584, 919212, 15029243, 6355484, 14190277, 8249554,
      2334429, 393982, 3971725, 7125708, 12351950, 15207046, 14272908,
      1879824, 16173446, 10013408, 65005, 2033942, 12823885, 9708979,
      3316358, 15020699, 14297482, 3406667, 5540116, 138454, 14973249,
      1400957, 2234446, 9055828, 15395737, 293011, 8402086, 1423321, 9612978,
      8333941, 9019223, 15450579, 3324832, 7048233, 1154611, 6679593,
      3223985, 10715902, 12832854, 1567290, 11758272, 9727432, 2438689,
      2894995, 15765809, 10215451, 12073476, 16078040, 691222, 908875,
      4529756, 9312373, 11462613, 10173381, 14293981, 2504913, 12501538,
      4501504, 12362835, 16691382, 9651625, 16743062, 574421, 2035673,
      14573697, 11835793, 6750608, 15953836, 15202540, 3972611, 2713542,
      10253017, 8471007, 721936, 12347959, 6139569, 14187918, 11309936,
      8758695, 9902903, 9483009, 12996050, 11537920, 1455240, 14552069,
      5825018, 1844921, 14496119, 14792614, 9800240, 6133219, 7571557,
      3523728, 6747298, 3334843, 16543537, 15886400, 9637435, 12510758,
      308140, 6357629, 13411200, 10196298, 5514874, 10316, 7274139, 1874142,
      3580714, 3719607, 7449326, 4523763, 5447722, 13668379, 1490094,
      5153181, 10561428, 4779609, 1729218, 8682279, 13154994, 925493, 425991,
      6398525, 13098330, 9402532, 13548437, 7191356, 8343822, 5806236,
      11902560, 13049033, 4165125, 9496348, 12375155, 1111996, 7130434,
      10869169, 3874753, 1606837, 16174490, 12763085, 6726053, 8554320,
      6257388, 16036354, 14426753, 9403020, 6196832, 2334310, 11198881,
      4870382, 2869906, 11620664, 14147785, 14688737, 4343823, 492819,
      847312, 15761710, 16362130, 13582602, 2898367, 4411749, 15879957,
      2755062, 16545121, 2017666, 10176348, 2488385
    >>,
    \* random.seed(10)
    <<
      9586544, 546686, 7195564, 8096041, 9698762, 248847, 3457754, 7760813,
      13645266, 8242586, 13817528, 4656024, 10963449, 13599926, 2688205,
      577196, 8735382, 8222271, 5499115, 1276567, 4194248, 15978607,
      15985615, 12508197, 16719451, 6059236, 747532, 7053077, 14431107,
      2326819, 10119859, 5957282, 6402286, 7067637, 4758324, 13872211,
      11324031, 4401017, 7664354, 2930486, 11506846, 5085259, 11103938,
      6083207, 2231003, 7665986, 12882180, 14429230, 16482159, 4016134,
      16263634, 7376065, 10289916, 6295532, 742570, 9779968, 68034, 3953616,
      2247686, 3270773, 15787398, 15260358, 5081157, 8998378, 6142903,
      12952941, 15069232, 4029589, 5274149, 11185201, 9210392, 7560199,
      7315385, 7884854, 1090421, 10955148, 9807058, 5447365, 14161109,
      8420770, 2624273, 14129353, 3763112, 16270269, 6926812, 3999252,
      619496, 532621, 8331624, 5052697, 13723475, 10178354, 11037578,
      1208542, 8950371, 15506638, 14346629, 1358108, 2511350, 6449478,
      9516632, 15863949, 6277611, 15316970, 10088216, 2510905, 1894411,
      16169822, 13010944, 12971105, 1620776, 7407993, 2791120, 16474206,
      13546758, 3203208, 15899665, 5849898, 7268418, 16282063, 6947123,
      7476049, 4118502, 11421753, 4608758, 2407752, 10355783, 8755306,
      2994068, 14510322, 2004583, 4479970, 7645962, 5076282, 2767197,
      11080037, 10883796, 15821342, 13775028, 2924402, 13044476, 2954290,
      8055301, 12966260, 5831278, 5503999, 7293232, 3752487, 84029, 9141075,
      11954994, 732710, 5564284, 15047927, 5359032, 4070533, 1340919,
      4391726, 7517131, 6791291, 9778583, 2654693, 6552961, 15445441,
      14588553, 8317477, 11296992, 14990055, 4050158, 12353413, 8813974,
      16647549, 15276222, 4558245, 8725992, 8096592, 10101643, 8386594,
      1053166, 2790202, 8210536, 11312784, 7741699, 15065744, 6729842,
      2277684, 7053734, 9081381, 9813581, 5859115, 9037333, 6506544, 8219086,
      11773503, 2781602, 9373766, 7404570, 1655093, 16251723, 16340716,
      6965458, 13909428, 592534, 14629957, 47486, 7358123, 8982831, 1089524,
      848473, 5865951, 1555976, 2550338, 1824629, 10204277, 7618170,
      13983004, 16654542, 13413814, 8137878, 2337060, 7694707, 14462573,
      7323436, 12995655, 8407267, 15479390, 7500883, 5758432, 12183869,
      4347338, 15064959, 13232690, 11708321, 7688091, 7101973, 5509216,
      10897290, 8718513, 15259559, 8781014, 2577439, 12409121, 3981945,
      5420078, 10386975, 551963, 11526282, 3281259
    >>,
    \* random.seed(11)
    <<
      7589669, 14524745, 9391422, 14375775, 15505680, 13106664, 7812311,
      7580488, 8520162, 14345285, 9854682, 3186027, 3098086, 13487209,
      8588401, 7981982, 10567678, 10300519, 13303944, 3123476, 1579129,
      7492589, 5090228, 2378927, 1521199, 9037777, 13583581, 14938105,
      11633967, 10644351, 702635, 9989766, 16478471, 6646461, 16185949,
      7599992, 10970999, 12396951, 10327428, 10906381, 2642312, 10454360,
      251670, 13953637, 8864766, 1059731, 999101, 598154, 3191165, 14756651,
      4059130, 10059922, 504702, 13054492, 7783528, 5474294, 7390885,
      9914654, 14133581, 3276948, 8709457, 3919923, 10742312, 4935044,
      8384802, 77070, 11114058, 1425874, 7672722, 10985748, 4666799, 6824614,
      16737893, 9248737, 16704933, 15631084, 14096477, 1395922, 11875074,
      4261324, 5289473, 12716962, 3853154, 8604776, 4849285, 499154, 1178154,
      9447959, 12856177, 1810713, 6717594, 1808635, 14203316, 4880540,
      6484621, 1121162, 16073284, 283375, 14215499, 11490672, 9142, 3581963,
      3518474, 15553186, 15271828, 877827, 7885078, 6299227, 16447693,
      11893354, 6667674, 7042931, 1225380, 9499960, 10560501, 3330111,
      13061244, 11323096, 4526083, 5652123, 1462037, 5221231, 5579860,
      254166, 16174514, 6879512, 12717809, 15482815, 1979571, 2258154,
      4133703, 11861760, 1695275, 183794, 1004844, 7800396, 13371802,
      8167539, 2980944, 11443360, 9383415, 3160583, 7506543, 8537345,
      3199153, 16530278, 12279147, 12910436, 2197263, 7033520, 10799747,
      6438286, 1954679, 6624540, 7059107, 16610320, 3571293, 7900, 4526408,
      14501117, 16289486, 16355387, 13479008, 9944537, 5102708, 16742046,
      14845573, 329348, 3535130, 3142496, 6614830, 16707350, 14334065,
      10100194, 10768215, 9679779, 1683304, 706451, 16597728, 2455489,
      3577630, 7407840, 4333178, 160645, 12963581, 10239691, 5518956,
      13929945, 4971504, 6478856, 1231423, 1246228, 1511915, 3501963,
      9776667, 10680164, 4077080, 260199, 10087868, 6185343, 6236159,
      10437932, 7603570, 2134415, 16091609, 9852776, 8115550, 13964670,
      9639705, 2277304, 14537888, 6477633, 3067340, 10523422, 2585961,
      5214548, 15240821, 3831637, 13720439, 10241564, 4185891, 12170040,
      3184326, 2658781, 12405482, 10552487, 15777376, 9293423, 3298229,
      11525511, 15940634, 6513081, 14800688, 8095278, 10125623, 1316974,
      7070878, 795266, 1742140, 1829509, 649219, 8595904, 16151115, 4281187,
      3999808, 12412265, 11820881, 6570141
    >>,
    \* random.seed(12)
    <<
      7961974, 4512986, 11030558, 8877341, 11180512, 5868424, 2392436,
      6402873, 182207, 16720546, 6287337, 8095657, 4597764, 10794607,
      13595384, 7721181, 11586222, 14501295, 10090774, 3819238, 9364875,
      27948, 11095126, 10472889, 2437776, 16408795, 7382894, 6168233,
      2722393, 5698887, 15199704, 3527437, 986908, 9667276, 13737522,
      3349295, 1251741, 8615433, 11525033, 13744732, 5653914, 11432602,
      6788301, 13386138, 14133183, 1465496, 312128, 15416696, 1019797,
      13751506, 15351717, 11107276, 8538360, 3745412, 1526357, 16600248,
      16561360, 7110341, 15883208, 7444775, 1887900, 11087467, 7100228,
      16296069, 2266090, 9051151, 5243562, 14797991, 10426233, 9364457,
      2743479, 16377148, 11690942, 14857482, 861565, 9313877, 2872495,
      8510203, 13685135, 1402622, 6719588, 10191135, 7026972, 11209678,
      9998733, 7878414, 7998843, 10222297, 6452205, 9078976, 511610,
      10749631, 12185752, 1386869, 16231266, 3218984, 16379659, 13208793,
      11133294, 4388311, 5978480, 15788833, 6092286, 14531280, 11578199,
      6469196, 11304032, 5199303, 1909790, 4234195, 3942183, 5624270,
      6095538, 6228810, 8579037, 9617199, 13591341, 12835945, 8388811,
      3009974, 472165, 6390697, 13800394, 14413028, 7216792, 548862, 8707329,
      431861, 3727359, 11335599, 7167949, 729531, 6513689, 3429351, 12950644,
      10188608, 1721563, 12638204, 9226988, 3701736, 2987175, 1308303,
      11675189, 4593383, 618174, 7272628, 4639699, 8360082, 5774356,
      10101021, 10685906, 12178184, 873402, 8623790, 7705138, 6179141,
      3502972, 5698542, 4729426, 7644216, 7990357, 11692843, 16085123,
      14353576, 8070252, 4025061, 16037204, 16584754, 2811240, 7796832,
      15506337, 9208285, 6110140, 3051797, 3174790, 12858695, 12558212,
      3689044, 15301523, 10182319, 111975, 15899736, 4500556, 15358750,
      12929743, 13444814, 5734280, 3012181, 4053152, 13336979, 144784,
      8412207, 671473, 4153295, 10386390, 1947138, 16505677, 6055772,
      16751968, 9169793, 8448997, 2597224, 401135, 15560986, 5409921,
      14796930, 13210415, 11217037, 13957876, 4688232, 10727537, 1981513,
      3850609, 13156272, 8845570, 8425547, 8009249, 8216601, 10519387,
      5934719, 4407006, 11484524, 15882611, 7463025, 15004173, 12395264,
      2720386, 7529565, 4887561, 10349594, 14649355, 771690, 4669183,
      5536500, 15836075, 14464702, 8643152, 10741302, 11676462, 7467513,
      11822833, 13289349, 3591490, 12314604, 4781852, 8740602, 4277210, 478440
    >>,
    \* random.seed(13)
    <<
      4345441, 4878104, 11496721, 15259551, 11476990, 13455405, 14249496,
      14931684, 3115934, 10938908, 3868131, 11176739, 2468933, 14583275,
      3777607, 10753476, 12314872, 3143616, 2184612, 1188277, 8913982,
      14190011, 3588772, 12493861, 4943520, 502879, 7240716, 2118906,
      14053544, 11478313, 10207294, 16743774, 242135, 16659358, 4627774,
      13998598, 2461390, 1425236, 14617732, 13322952, 13585176, 14904071,
      13523221, 4403186, 13864109, 7567629, 12494834, 7327703, 15927004,
      2340541, 13317259, 14713865, 4306845, 5968278, 14259610, 3926335,
      8166905, 15069979, 12666862, 9222480, 9464675, 16465521, 7207116,
      11252954, 6110306, 14908727, 7211221, 10714679, 5264042, 10993305,
      1968974, 5804568, 13751338, 9976993, 13392557, 10633143, 16536986,
      4410559, 11591758, 7522525, 9298375, 10254047, 12556261, 16561703,
      2262470, 7388344, 11355181, 12229735, 7439016, 8992184, 2963422,
      4920884, 3399510, 3010033, 8769338, 5976857, 4249866, 6226236, 7708443,
      4391642, 10158583, 4699913, 6639706, 14919431, 2194140, 9683851,
      8235216, 9227913, 3950145, 9485108, 3954026, 14875035, 3262647,
      11769995, 6147841, 2199516, 1229363, 7220592, 10925856, 10554310,
      15999861, 7778813, 6537892, 36591, 12060838, 7118830, 15652770,
      14554303, 724919, 3773276, 2378095, 8355510, 13524034, 11712687,
      14061746, 7467827, 10721572, 4256368, 2680272, 12300242, 6937226,
      12352315, 14566675, 4215740, 14867841, 12750005, 13474992, 5881947,
      3406752, 11834535, 14321941, 10578004, 6287366, 8730076, 12021061,
      11020277, 2298604, 15123640, 16295765, 11809492, 10125049, 3987259,
      12125134, 8327281, 3551999, 14454761, 10355577, 714092, 9745457,
      11774166, 9919109, 648401, 6028911, 9781540, 12208672, 9561130,
      5726632, 3055987, 4954732, 3235897, 2759574, 13210404, 11476140,
      9316267, 1883413, 15109861, 3784225, 2807303, 1160042, 7199860,
      10796588, 9984327, 9330698, 13539362, 9115323, 11662808, 651417,
      16292466, 7375106, 13847183, 5755575, 10822847, 1554609, 8834641,
      49904, 2122057, 16742214, 5210779, 2038703, 6845844, 5058382, 15212509,
      4512136, 9479829, 10020341, 11727407, 1299014, 15743793, 7883454,
      8758016, 6152167, 14288009, 14000643, 600374, 95898, 5363414, 5616219,
      2601533, 8330879, 9391219, 16270331, 8938343, 8668561, 13830196,
      7956130, 3742207, 11232379, 3476677, 4975385, 13401783, 532504,
      6311047, 8411705, 11982686, 15274004, 2635331, 12387849, 2455631
    >>,
    \* random.seed(14)
    <<
      1792285, 10332727, 11787429, 12670241, 10939449, 8843470, 15776495,
      4142886, 4548558, 12333465, 4291201, 4882438, 12315472, 1218459,
      11046958, 7545410, 5083294, 7828556, 11479526, 14643522, 6655079,
      6607029, 13044563, 15249200, 1986415, 4421072, 3745783, 14609832,
      15124040, 5295863, 6006791, 13553487, 4368826, 6051040, 13493600,
      10615421, 10597562, 8661551, 2511608, 2701978, 9249827, 11164097,
      11140055, 4619271, 2767372, 177927, 10933683, 1173344, 2064039,
      9979498, 5655032, 466196, 1395998, 4597874, 3429626, 14329069,
      16408109, 6406879, 6772556, 9785903, 16616702, 15675051, 7359293,
      15039287, 10192682, 1583674, 14639721, 10751900, 11523992, 14867212,
      1871187, 9710324, 9883192, 10694084, 10632214, 6111229, 3039998,
      14509731, 1588340, 12532643, 14676606, 8164259, 8619822, 11278480,
      3252073, 4543786, 7593383, 10470948, 3660585, 8132568, 13392276,
      4719855, 8396663, 4271821, 1718457, 2033140, 13725910, 16764296,
      1502152, 4674662, 4708840, 1984402, 469718, 2713137, 12420864, 6910015,
      1910499, 11512487, 8820865, 9830502, 1560007, 7133482, 8060402,
      16337213, 11498636, 2824826, 8973301, 6487552, 7636433, 5192961,
      8134784, 7714600, 7332357, 7007736, 9989936, 13869507, 1591389,
      4301316, 7961093, 6611528, 3963840, 7536917, 14519894, 10324142,
      15754145, 8205018, 1114825, 9547778, 2404123, 8204968, 11802282,
      4475908, 9587292, 7405548, 320545, 13847084, 11826153, 6806293,
      15836556, 16563152, 7098613, 348884, 5829923, 11907198, 9552972,
      6173200, 15756086, 7902804, 4421443, 5966005, 5071503, 8893213,
      3166038, 717989, 10543096, 9393275, 7872835, 13383297, 4296203,
      1599876, 6507788, 1641320, 583491, 3227772, 5242022, 422530, 16490422,
      6114, 9832183, 8500478, 4740971, 8750534, 15705656, 13499187, 6010869,
      16605996, 4220051, 1909196, 589546, 16046504, 2452847, 13001538,
      3339321, 29887, 3859352, 4199092, 14646190, 8399799, 4438351, 3060192,
      4170826, 3487178, 10132205, 11410601, 15387039, 5570424, 4888458,
      12103323, 12777328, 15024819, 6186361, 528983, 9413920, 15462500,
      9996504, 12436290, 15809360, 13205971, 12704686, 2654920, 8525356,
      10814343, 14116302, 3310629, 6148345, 8224888, 6444299, 4108239,
      16105724, 6510366, 9159387, 9288636, 12976179, 15265455, 5275571,
      8186651, 15356032, 15977734, 10279969, 529379, 4149168, 10790483,
      15663833, 7204263, 7867232, 12978072, 5694746, 1503540
    >>,
    \* random.seed(15)
    <<
      16194075, 3506108, 195533, 8746246, 12347890, 606940, 2651013,
      15317830, 16548030, 4008915, 283210, 921878, 14755414, 13503551,
      11431167, 2470417, 14383818, 11656428, 16774132, 6162146, 4021753,
      1965112, 5672003, 7823715, 11881529, 5968315, 4707379, 6581293,
      4417680, 5777065, 3835434, 15687293, 14392118, 3462260, 14672222,
      5958729, 13381775, 5257489, 3747882, 5127762, 15516211, 12190716,
      8579364, 7054270, 3882010, 9682962, 7642639, 14104221, 7044339,
      8214483, 1324717, 7736089, 9473952, 13405651, 6039201, 7370272,
      9556565, 5287425, 15606457, 11643820, 10830888, 7559616, 6796457,
      13034030, 14488367, 13583257, 16696230, 1104595, 8225139, 16092889,
      15854885, 14072968, 314573, 3283478, 2354147, 8957984, 2888944,
      10302022, 15738115, 13169678, 11584415, 14161559, 12064199, 291608,
      4808637, 8891683, 8304471, 2544930, 14882476, 14353900, 1675635,
      14962474, 1949877, 6633264, 795511, 1234607, 7862836, 12172794,
      14100951, 15460276, 9311195, 4963061, 6735369, 15479230, 8423111,
      3898496, 3006669, 9121654, 15907031, 8389803, 5935802, 1313823,
      3947006, 5202880, 5221622, 2760615, 13840074, 10505137, 5339643,
      6490965, 15180134, 7995123, 5640121, 14599154, 7407954, 13116915,
      1244885, 12704258, 15224840, 14054073, 13357205, 4570910, 7959896,
      2384875, 1936100, 11347965, 8262494, 6539541, 6310721, 258349,
      14092906, 4362510, 15568973, 16236137, 12433698, 1549239, 4818620,
      1077273, 694221, 7561084, 14997824, 996751, 15846072, 4279126, 2657089,
      13804079, 8387373, 9479395, 8069350, 14637971, 16381755, 8362504,
      722239, 8393798, 1035263, 7960176, 14155750, 1371078, 9555982,
      16110934, 7755920, 3888552, 13048461, 12668454, 9954601, 7534962,
      11617004, 12094921, 4288676, 11379301, 1424894, 10247582, 149739,
      946393, 5588582, 12645112, 10880025, 14013802, 6371799, 7274996,
      5827196, 938923, 10377626, 15688017, 11831307, 5072275, 9990067,
      7476485, 5230100, 9201721, 13786551, 518256, 13433583, 7231044,
      14990402, 14582881, 14974995, 6461131, 252294, 14992144, 11226717,
      15344850, 5839905, 10342394, 6517026, 15246126, 8692087, 47296,
      2413999, 4211118, 4184788, 8372076, 16546683, 8599554, 5553325,
      5450522, 15317662, 4090846, 11482496, 9846497, 5281740, 8253218,
      5346959, 42671, 10147876, 5962023, 11778937, 3776643, 5704853,
      15528882, 990862, 14349105, 2889407, 10761122, 14439723, 8481768,
      12228249, 15873392
    >>,
    \* random.seed(16)
    <<
      6065345, 7872248, 8061127, 4780389, 6995304, 3802466, 7495376, 98206,
      6870533, 14330034, 11034472, 11928625, 4342872, 3990606, 10653463,
      3731757, 169925, 4976078, 5067452, 13671940, 5621430, 11185622,
      2381534, 15966560, 12472421, 10101694, 5202753, 372147, 13241283,
      3696870, 16042458, 10113163, 4253125, 341806, 14991125, 2583017,
      13549897, 10167800, 11197432, 10585685, 459181, 7796858, 7663636,
      10044309, 10515099, 11803478, 4969841, 16532770, 3763725, 13130711,
      5197416, 6069704, 4332465, 7051149, 13217513, 1441841, 5834789,
      8292857, 7098830, 8669512, 10788124, 2890139, 15911235, 9439607,
      4916093, 9709906, 738308, 4744576, 16339068, 1402660, 13968216,
      16776244, 13259557, 103712, 8780736, 6259043, 3939296, 8218931,
      2592237, 5182049, 5104268, 5308443, 7732322, 7610104, 1102799, 2755759,
      11732059, 8090876, 12211841, 14257195, 219240, 7468086, 14133602,
      14500416, 8246537, 234678, 15414325, 14090946, 7970489, 11727271,
      13350273, 2062591, 7621325, 13974762, 10284891, 1311201, 8375729,
      10977999, 381753, 16241751, 2415064, 11862838, 3896702, 15427095,
      6815183, 15045241, 6194968, 554096, 9046602, 721401, 11062330,
      10907986, 6711069, 10130320, 5358215, 8010730, 8575211, 11215705,
      15984761, 13653926, 13133587, 11419685, 10995840, 13924764, 13706790,
      1189378, 3822035, 5368334, 1692893, 11871146, 1562426, 9088934,
      2038680, 4079096, 153325, 6615496, 10495508, 781753, 15414128,
      14146786, 1905898, 12379671, 11522596, 809017, 15780264, 14206315,
      12840990, 6588148, 2569932, 15095211, 10709769, 11633872, 4286166,
      4020577, 2988806, 9766209, 186897, 4008391, 8814804, 4101064, 15417990,
      1947709, 1745385, 10752567, 2470236, 4489570, 6515127, 6828194, 647339,
      6794524, 7792293, 14824551, 12251593, 7824950, 7730161, 4360004,
      654909, 991652, 508816, 11863159, 3325285, 7173661, 11193126, 4284341,
      15517835, 16226803, 8436329, 6446155, 1732935, 13625618, 3622609,
      1907398, 6978375, 10612454, 1816014, 4760771, 1944125, 7646655,
      7281199, 2368787, 14101615, 6705815, 3985242, 2111936, 14813333,
      2201712, 14698380, 6772057, 7261932, 8411519, 3772789, 6636098,
      3097091, 6078628, 11197644, 8322757, 13852860, 2921672, 14436984,
      6845382, 3501526, 11043527, 7157010, 14206501, 368456, 8190934,
      5111315, 9604353, 4948569, 16344847, 2076288, 14218869, 1278469,
      12607618, 16663867, 13198007, 5116509, 12367361
    >>,
    \* random.seed(17)
    <<
      8757436, 6948585, 13534025, 5090601, 16114428, 6134144, 4859107,
      2930783, 12853149, 11830328, 11814848, 9062806, 11096166, 4668705,
      1848212, 15392978, 451924, 4175901, 6445321, 13676553, 12522433,
      7039156, 4234296, 14423454, 8415496, 13461601, 5325677, 10746223,
      14199024, 11482909, 15857722, 12151276, 6737577, 2307561, 16751161,
      9247339, 1043421, 2346825, 13633316, 13281257, 14685374, 3297813,
      2531941, 14811011, 11837477, 8939857, 9376649, 13451870, 16025393,
      11506330, 3523383, 5553863, 9059081, 2071992, 14805156, 12005592,
      10716835, 1160622, 5187507, 6873195, 1373447, 8510889, 15766825,
      14407158, 7954052, 10740360, 16715579, 10065368, 2375773, 11452313,
      13626526, 6856412, 13646220, 8490446, 15434619, 5643556, 299210,
      7260878, 6244359, 9591582, 866861, 15047139, 12617050, 12396468,
      5949901, 843821, 16097826, 8006715, 6288587, 9732074, 12991855, 86534,
      14559078, 6802455, 4008858, 1964437, 9341832, 3587694, 16062375,
      4170308, 8840213, 16061943, 6034895, 974958, 4482878, 1077734,
      13194771, 4621865, 3233766, 12541350, 10131700, 13902341, 9320522,
      8944479, 9285867, 15128391, 2172413, 4197193, 11048889, 5160811,
      15376808, 5835477, 5349901, 2864328, 5571263, 1578960, 15251173,
      9645443, 9703022, 13126517, 4573095, 5622239, 163801, 849358, 12637764,
      16618393, 5838538, 322376, 7837625, 12493099, 4571841, 7949230,
      10621688, 905230, 12230330, 3326755, 5197381, 4329802, 1258791,
      12552630, 16555597, 12000887, 15267956, 8135370, 346640, 10419612,
      9465450, 8812211, 11509142, 2321836, 6761431, 8135083, 12274890,
      15962422, 16103029, 16417854, 9901016, 13697826, 6569518, 3075037,
      3282431, 16699993, 4218101, 16121204, 2530029, 11346597, 1852335,
      15223261, 3563308, 842683, 14126823, 16328841, 9008995, 5119098,
      13504581, 14926926, 15438155, 5293347, 13602709, 5304307, 829514,
      2708682, 15535015, 7029612, 1556795, 11598603, 12934659, 5231725,
      14075136, 4203379, 11030203, 16728541, 6772671, 8057333, 1258577,
      9095607, 1428638, 9110594, 10678743, 16429906, 4055125, 3773800,
      8930217, 16071137, 4449772, 9663301, 2741549, 13444798, 4953277,
      825710, 12161246, 14893150, 8167379, 9838277, 6589583, 13831938,
      8161821, 3732490, 9294306, 6843212, 8651468, 10516107, 7466850,
      1298554, 16230039, 7706704, 12611973, 3668024, 3843008, 8102423,
      5339260, 13750952, 3167529, 16269855, 6108452, 10035468, 476103,
      16132032
    >>,
    \* random.seed(18)
    <<
      3041119, 2060501, 11096963, 7530042, 5612980, 4018080, 3320875,
      15970447, 8212704, 10539241, 8288526, 3069796, 8049247, 4957207,
      7689520, 14878876, 4438082, 3290313, 4258073, 15086636, 11607821,
      1979711, 5443168, 8759483, 11321610, 12791701, 13206591, 2924806,
      14528155, 16226031, 15838168, 13607673, 3935228, 2835821, 3982856,
      3359229, 12328329, 6132671, 9656012, 8518488, 3386808, 13598162,
      11368325, 14961263, 14650707, 12685270, 14022169, 8282335, 3625492,
      12017359, 5015539, 4445892, 111785, 5750284, 16369188, 6801390,
      3698378, 12948565, 12198785, 6810335, 9024419, 5803505, 9956649,
      9616825, 8837159, 4565894, 13850077, 4522719, 10065157, 11890505,
      5086664, 9258506, 1926531, 4719880, 8009525, 9527697, 15484588,
      8401303, 2436090, 8322054, 11474507, 13322572, 10588301, 13309090,
      2688739, 3185136, 3470161, 10859023, 11513299, 13533091, 7331432,
      2203994, 6828482, 8614766, 8058781, 9625765, 1698222, 15306028,
      11821224, 3376210, 9871370, 4352147, 8962593, 14160960, 5698130,
      13265744, 13616154, 13975024, 13823847, 11026597, 9141282, 7874090,
      1487884, 8248925, 2481549, 8012115, 2553303, 8212447, 1322755, 4187043,
      10876816, 1553789, 9118133, 5912831, 3420307, 15644094, 15273255,
      13146805, 10566060, 6598777, 13290308, 9711197, 13724486, 8936672,
      11434150, 12720686, 8837849, 105871, 16521089, 16598684, 2229667,
      12969050, 11564098, 14217999, 14835079, 1462278, 8026045, 6714236,
      13710243, 6790515, 3042678, 6465013, 6983313, 2168401, 4544662,
      11868674, 6659753, 11407489, 11775510, 6049950, 2408033, 5630258,
      5678530, 12251350, 14194627, 10255829, 5056864, 15309636, 2114876,
      7279727, 16682575, 11723039, 9079256, 14488298, 304117, 15076505,
      9584751, 7106915, 2450009, 12893066, 2731248, 10324666, 12394416,
      13546029, 10941865, 14946921, 7153617, 95777, 8630511, 9332373,
      9372767, 13881966, 7699490, 9202496, 1697974, 146765, 12896111,
      10184414, 12924218, 4317775, 7079946, 12461920, 6776572, 8046935,
      10241646, 9367941, 7918585, 14576269, 6967966, 14029253, 14699265,
      14083171, 15181542, 13290084, 2531131, 3775554, 2888226, 14327118,
      13162228, 2950639, 16066808, 6182710, 12251812, 10540861, 4981152,
      8316874, 982105, 13085188, 13880622, 1571265, 15604963, 5906592,
      12727440, 9061560, 12347394, 2996089, 16319790, 14399517, 8786022,
      2533993, 15604485, 3546524, 4399944, 15873147, 1281772, 2738133,
      14083682, 9601242
    >>,
    \* random.seed(19)
    <<
      11360286, 725678, 13168627, 15022503, 8731973, 2024816, 8581406,
      3347009, 6602416, 5824526, 16723813, 8878484, 4854738, 9809740,
      2487386, 9982436, 4380171, 1806366, 4369411, 6909973, 5492307,
      16240474, 4494798, 14000738, 1805965, 12973823, 5460979, 15052542,
      5218805, 383537, 9550262, 10361667, 3382805, 14749613, 1187620,
      15441755, 3398259, 1910783, 9100676, 7643816, 6518985, 14530656,
      12305594, 1236507, 13473103, 1652412, 6953109, 281900, 1666957,
      9715640, 12213727, 7099780, 12677923, 14307551, 6644840, 7387030,
      11044261, 16596226, 5017239, 9575371, 15349365, 8427211, 13988957,
      2659511, 13286934, 10688307, 16004038, 6818144, 3906428, 12997188,
      9147809, 9673726, 12270473, 1807205, 13446506, 3478359, 6547813,
      3213061, 2324374, 2259125, 10507860, 8276247, 1755599, 9180752,
      11833974, 7685128, 116683, 16055337, 7625242, 15198639, 8048944,
      9967893, 2009889, 8727087, 8056308, 13834285, 8389720, 8287977,
      6191992, 7185683, 15036968, 9092968, 14530246, 3078610, 14940693,
      48097, 4108464, 1535637, 434233, 7817806, 6318494, 7579971, 1906867,
      11338125, 11831811, 10945999, 4411362, 15693510, 2153913, 7979624,
      4759828, 7537132, 6768320, 4917662, 12337957, 2869668, 7734965,
      7360389, 5052919, 5172616, 11364383, 12842993, 760455, 1296541,
      3509895, 5222391, 11533834, 16190215, 12617254, 7056525, 1699681,
      7767367, 1115146, 7863779, 8485855, 7570403, 11013404, 16047395,
      270376, 2938949, 7327886, 10887668, 4610376, 1264597, 1427826, 2120182,
      2871238, 7216061, 4795609, 14815737, 7835630, 13952653, 1882781,
      3402210, 10407636, 7879734, 14743059, 16745743, 11475219, 13603302,
      1140450, 7194847, 10879954, 15871854, 10634535, 2570233, 147130,
      14732619, 6454178, 10414931, 10947952, 4861563, 15940728, 10687478,
      15585256, 659529, 9555151, 9154776, 9879283, 5982501, 16080437,
      4244620, 3533728, 4433913, 8542000, 5325701, 1032532, 412079, 12995569,
      4712932, 10966352, 14352658, 3533007, 1076478, 3306502, 4930300,
      8786627, 7817838, 12611465, 8437429, 2279815, 16573390, 5425831,
      13491414, 8602636, 13480173, 4382194, 9430920, 14839078, 12023691,
      12164092, 12380152, 16028986, 5134363, 10753808, 12517227, 11429909,
      8870950, 4789351, 10837903, 8467646, 9549548, 7201610, 13858226,
      8027145, 15697850, 1048064, 14624614, 14255222, 3752016, 2590725,
      657989, 7689521, 14313198, 15603510, 1942077, 8605944, 9914467
    >>,
    \* random.seed(20)
    <<
      15194112, 12126570, 11513434, 13198287, 12859891, 14763340, 15176942,
      2536803, 4359181, 11308007, 10665710, 14249562, 15182469, 1703164,
      14631919, 5493308, 9612349, 15190595, 2841692, 452650, 6904211,
      6823969, 16673835, 1258428, 1732210, 2098446, 5354266, 7959203,
      15939011, 9741951, 7539693, 6911908, 3500609, 3352358, 5316766,
      10492027, 15244379, 11430596, 5629910, 5515361, 7170108, 1555655,
      10530787, 8688074, 13515474, 14120437, 8256295, 6793648, 1366772,
      3461866, 9616867, 4070863, 588832, 3385913, 1585865, 1405116, 3193334,
      4251730, 11633962, 12825011, 4755878, 5118115, 11580470, 4308101,
      2740548, 10468262, 1974626, 15194919, 391659, 4488800, 11841085,
      3925191, 14413518, 14112420, 3685377, 9628966, 3985752, 939733, 217769,
      13406149, 10818929, 10362828, 5045681, 4687522, 2296336, 11656475,
      10852737, 5634759, 10061859, 12101292, 7505934, 15208624, 2567136,
      15475811, 10715115, 4593645, 9322919, 13972151, 7262873, 2629495,
      2762730, 6807778, 15583252, 11856902, 14481598, 2030624, 11572971,
      2100308, 16710146, 13082405, 9736850, 7189870, 5784405, 3758489,
      1952003, 15213656, 10195274, 869613, 8715566, 3244654, 7322199,
      2891143, 16653649, 2891151, 14084180, 1358850, 1926551, 13152336,
      14834643, 4923759, 33551, 13589879, 10929789, 13394199, 5290304,
      11278784, 12243759, 6746047, 15980904, 7673981, 8897771, 12692057,
      12799645, 12171427, 912000, 14022786, 11196188, 2753063, 1972092,
      15738353, 7637385, 9349525, 5595653, 212614, 1226453, 9627182,
      12536585, 1822027, 1564686, 5583133, 4316970, 10782658, 1441467,
      16042278, 11111194, 13105558, 5050092, 11134099, 743583, 13214222,
      455408, 3261499, 3684880, 8608896, 8500012, 11757123, 203900, 2626688,
      399047, 15528059, 11183225, 12494667, 8846599, 15036632, 2267118,
      14963810, 5236057, 14678076, 2114518, 7029258, 4614418, 1832451,
      6510220, 1654844, 3657465, 4023239, 3314090, 14414441, 3798266,
      1630925, 5056964, 2103439, 9311725, 6539039, 14867606, 2339990,
      10871120, 1388190, 7524895, 8176820, 54382, 2999229, 3163551, 13655873,
      10640214, 5222576, 6795916, 15808822, 14211741, 1593792, 15247618,
      13901762, 4974148, 3473319, 6115153, 10450640, 5003314, 2413249,
      11349072, 12173256, 1655534, 81439, 4634278, 1036752, 14739075,
      6500512, 6261847, 12339311, 16272759, 4740046, 6642141, 16441793,
      14041218, 15125564, 7759790, 13592789, 1667206, 1117524
    >>,
    \* random.seed(21)
    <<
      2767393, 7012769, 11572368, 7013380, 10653531, 4718709, 8037972,
      14147867, 3624119, 16604766, 13298181, 7963259, 13553546, 16160066,
      8597589, 3079983, 8473905, 8850791, 3960368, 13227216, 53362, 236916,
      6225130, 15649420, 9820753, 7183854, 1162069, 2431389, 13316932,
      12605061, 3896553, 15460120, 3903973, 11642020, 710270, 7329226,
      16736299, 16699588, 12393123, 12930224, 14680727, 6824452, 10332921,
      7412849, 571600, 16051866, 5518518, 9062202, 8347542, 11641968,
      1942966, 10885329, 15971307, 15735530, 6181508, 389636, 2597332,
      12432282, 13715532, 1484177, 2095090, 13566273, 15568314, 327986,
      7602219, 2702786, 9261071, 12221498, 5753266, 6733422, 8131977,
      2534996, 3135808, 11158662, 623098, 7884318, 14527149, 13759739,
      3940399, 1251971, 13090579, 3311443, 3499093, 11304393, 16253246,
      13470654, 14998257, 11039334, 12663315, 15926718, 12797536, 15055751,
      9743631, 16589632, 12243297, 1189954, 2054837, 9397304, 7991413,
      9377500, 13875061, 6509717, 3373552, 5724908, 15488179, 2452008,
      14890781, 8989619, 6871976, 4898733, 6127383, 16013992, 7571920,
      8412752, 6472275, 5334346, 16690691, 8127763, 6485958, 4457784, 450227,
      13994222, 1564685, 2666633, 12047594, 12012452, 16656812, 16481799,
      8321679, 47512, 8246666, 1176361, 9234698, 10055895, 12552310, 8760606,
      3725095, 9588488, 10215670, 5345911, 9336302, 16441589, 10445875,
      1890953, 3031263, 11235303, 2853667, 10510876, 5841948, 13986470,
      15553714, 5576380, 5815208, 12781757, 10019966, 15597838, 5144128,
      4123259, 1732637, 2830189, 1101322, 15487547, 13651550, 2919539,
      13036208, 7192649, 6289368, 2682426, 11464740, 615679, 11339750,
      8718494, 15077644, 11039076, 16077272, 4052586, 6828572, 15397857,
      16594505, 2736132, 16130114, 12446358, 9907261, 239289, 14817128,
      5815141, 8236134, 8491517, 6300853, 11189332, 4147458, 15708296,
      14699267, 4125047, 2722817, 9425720, 1163250, 7369112, 13510386,
      6836108, 12984166, 12438844, 8106296, 963531, 14042509, 4831515,
      875328, 14316118, 4328129, 11046559, 4863289, 583200, 7038903, 4170724,
      2862690, 6619035, 1165198, 14602647, 5672081, 10828610, 15085153,
      2451397, 16499503, 2536695, 12513248, 12221722, 8035836, 828829,
      4231462, 2341909, 16087295, 10909390, 8818571, 15291512, 12224022,
      8037404, 474785, 15985820, 3558304, 15090080, 14063732, 6135843,
      13341549, 2581033, 14788324, 6186739, 10089075, 12964817
    >>,
    \* random.seed(22)
    <<
      16076085, 15223032, 2354994, 4070438, 396213, 10285890, 16754242,
      7501654, 3091263, 11776832, 2023199, 12408316, 10929034, 14740888,
      5798958, 13297231, 14924188, 1336430, 3887977, 4517531, 16097488,
      833178, 5359512, 16376330, 10085494, 3005394, 15637835, 9260994,
      11496761, 12299853, 15499617, 7214387, 11880197, 14824099, 812693,
      9682875, 14786891, 357666, 9891105, 4428723, 5212365, 7071908, 3189899,
      3028809, 14257420, 1871796, 9778162, 8906059, 15736842, 12228657,
      12984762, 16492712, 16126126, 15942269, 9501154, 1026294, 11716961,
      5476649, 10273102, 5617232, 4335415, 3094581, 16051048, 6596435,
      5242416, 15111776, 13104844, 14608106, 16016106, 16040133, 10919887,
      8645154, 2386112, 4689666, 13844994, 4539977, 11198804, 11607942,
      3104260, 7246242, 824182, 5744824, 8922401, 15120043, 541305, 7036136,
      15520282, 4220890, 8493963, 4769342, 8679049, 14801503, 6869298,
      6665090, 11089736, 15509958, 15375707, 3101401, 5155744, 9450133,
      6270962, 6664137, 9774303, 422838, 4988176, 9655836, 9993088, 9417103,
      9112050, 8843857, 7272450, 12709518, 11295054, 15086219, 8862408,
      7169614, 1478231, 1519486, 16718229, 7444654, 5967650, 1653748,
      7243719, 13106823, 6757915, 974067, 15594492, 14112692, 15974540,
      3304217, 8589825, 4005460, 6721943, 113377, 1620106, 7700402, 15024003,
      3245444, 2875546, 505879, 9170862, 6312520, 5857576, 3000713, 5507759,
      15263483, 5992958, 10561976, 3208815, 7442119, 620341, 1053920,
      8983402, 2258108, 13353108, 13066801, 10856160, 12399073, 3380734,
      10998770, 11637582, 1694478, 873960, 3272462, 6891185, 2046695,
      13893225, 2475778, 15452069, 9849534, 7727182, 725104, 14202470,
      2014364, 8363973, 11872137, 8790514, 2274478, 9807006, 4768161,
      16630990, 11473169, 12476850, 14400595, 7936254, 7988847, 12201297,
      1105013, 10792241, 11980379, 5935330, 16018036, 13156263, 1858494,
      13753881, 13551191, 10207389, 4343283, 15816348, 2004574, 305168,
      3134504, 8388750, 5876195, 10646432, 1074569, 5713880, 1631594,
      2875258, 10553131, 11611142, 10014195, 7288010, 11743099, 4513015,
      2974915, 702413, 1282389, 16225822, 3197319, 5910261, 11388960,
      1981243, 16662012, 3629700, 8966032, 4277320, 8164394, 14532363,
      1141375, 3030862, 391194, 4636642, 12625389, 1633332, 9746248, 7884631,
      10375763, 3484851, 6757251, 5773566, 1972074, 12329656, 15236567,
      15519934, 8804203, 13994752, 3026840
    >>,
    \* random.seed(23)
    <<
      15516664, 13075871, 15914964, 4863994, 14972546, 13919093, 1401747,
      286497, 9932568, 5146308, 7109301, 6361668, 8893401, 6007582, 2186120,
      12179492, 3221177, 4485924, 7458706, 236155, 3708421, 10404567,
      7634186, 15127311, 415520, 1776703, 1439050, 16463052, 11911960,
      8359094, 7067374, 328490, 8600570, 10530484, 12317984, 7235908,
      6022959, 12931446, 965604, 3449844, 13138277, 592398, 9883851, 6192565,
      11037943, 2884517, 10418507, 3624638, 16286234, 12334786, 6086648,
      9488014, 12747104, 14430816, 6185487, 16249766, 9597352, 4718994,
      11081889, 16351502, 5274607, 9613103, 1438413, 13661276, 7953514,
      2980166, 12044598, 8104807, 9908786, 13279009, 7506991, 11336772,
      10777322, 2744497, 3053943, 13405091, 2995403, 8952099, 5425958,
      11297251, 13688085, 8725285, 3281755, 9769337, 1917656, 1381220,
      1654303, 7149483, 653190, 9529628, 4623204, 15772158, 9610356, 4707367,
      13768443, 9897941, 5549984, 1829487, 6201763, 15101593, 4839963,
      9095872, 5113484, 15007878, 13045669, 7629073, 9210582, 3662386,
      4335543, 2508751, 1797296, 10396039, 13150134, 2003096, 11863898,
      13339246, 13901019, 8271406, 3993420, 5507324, 9151619, 2389915,
      15413952, 12504294, 9943784, 1683561, 15862294, 6426256, 2806153,
      7538227, 16357894, 566720, 938178, 10583925, 6983068, 6599852, 391962,
      2727466, 13582217, 3785494, 11529392, 213673, 16336573, 3727936,
      13505050, 12424299, 15918694, 954176, 9036143, 15848416, 16579539,
      7467175, 12566375, 1557171, 5807308, 267905, 16347570, 13224268,
      6324996, 8230854, 3243268, 620646, 1273006, 4434500, 7817474, 9198515,
      3299154, 12665947, 15662841, 7700503, 15945966, 4960079, 3623058,
      1537698, 1736499, 9333836, 8874643, 10896854, 2846757, 11586505,
      9120905, 9361504, 13637238, 4003690, 4245681, 1677908, 7075817,
      2767077, 15114090, 197619, 7460702, 12782962, 5750830, 11015793,
      14970794, 6953468, 13652559, 2769689, 15018656, 10351645, 11538435,
      13597578, 6922651, 1167277, 11626995, 16116419, 13922062, 15059516,
      10729233, 12511531, 4000093, 9156976, 4953526, 7132133, 6872223,
      5013956, 12946401, 14435904, 9346429, 10230729, 9226420, 864295,
      13867055, 4779114, 1819426, 424579, 10590425, 2335594, 5578462,
      16188886, 9384423, 12226263, 14014838, 7221841, 4166658, 2773711,
      15963823, 11083372, 1318276, 5668680, 9429152, 11551829, 9090145,
      1906530, 3943997, 14880141, 9409471, 16066180
    >>,
    \* random.seed(24)
    <<
      11951132, 6423336, 14089501, 9777404, 3063383, 3661932, 16748403,
      2807325, 3256381, 2841619, 11255611, 11436208, 1539923, 11842789,
      12712716, 16756128, 2538397, 13528873, 11854188, 4754185, 12154242,
      15471609, 12850387, 213266, 7405089, 7847715, 14525250, 12096855,
      16574361, 10656500, 1939341, 472619, 8672050, 2829501, 16075271,
      8242814, 12400871, 14180357, 7452561, 11439588, 5110356, 8384562,
      15989210, 16695498, 1428049, 11529806, 12760011, 4259879, 14147467,
      10257080, 2645775, 11428701, 5483978, 16110015, 5123060, 1249838,
      9094696, 10888121, 6157194, 11085662, 14993642, 557997, 15512754,
      3585774, 5304424, 5686297, 15011915, 12465651, 1167869, 5213997,
      1625796, 4126856, 11159034, 10007050, 13406188, 2565769, 13743063,
      14222163, 16642629, 8213161, 14423821, 4767096, 4469654, 9433149,
      12461865, 4594813, 15513116, 3323166, 1570259, 9669889, 8295104,
      13164673, 2588348, 10952610, 2400826, 5440147, 8045540, 3320641,
      11247129, 10138922, 16336936, 13144529, 2203669, 7983154, 8479964,
      4351590, 16733013, 8536921, 12834680, 3787106, 8927106, 13360042,
      4070262, 1418169, 10585873, 2292170, 4378164, 5257837, 10803223,
      9095322, 10883254, 3865441, 6564366, 3465340, 13334061, 5133746,
      6770173, 1116257, 7866590, 6082388, 13952377, 5465180, 4203125,
      12993640, 3112264, 12467262, 9636112, 13854623, 7291002, 5727694,
      14666052, 14863769, 4176481, 15185086, 6229714, 566365, 969036,
      14613428, 7564364, 11794243, 5244075, 7361262, 7528357, 13200552,
      12817842, 1503837, 628711, 1367214, 16596780, 5502606, 11936072,
      6864697, 13611792, 6312677, 9039908, 8343432, 9669928, 8797071,
      6871417, 14267087, 6646619, 14063609, 3704400, 4726464, 5083283,
      6240136, 4929846, 2445842, 5639336, 12492910, 15220135, 1063145,
      13395215, 9709813, 10756062, 13483989, 288472, 15281132, 4401234,
      15516240, 9113646, 257954, 11611546, 10833456, 7034043, 6714601,
      10614555, 6592819, 15185282, 4884610, 4488117, 7560981, 6409438,
      11370258, 12754791, 6230705, 5344828, 14618929, 12101913, 143010,
      6662900, 15252144, 325424, 8076209, 7760901, 13301730, 1142744,
      2826477, 13165362, 3887057, 14177374, 2114208, 8884421, 10955048,
      15087840, 9886653, 3574333, 15856364, 7477878, 2243864, 2946778,
      13846469, 816347, 1893289, 13832141, 1377538, 876020, 3932230,
      15677928, 398015, 9340956, 16244972, 11755502, 8200276, 831922,
      3073921, 15221838, 5582447
    >>,
    \* random.seed(25)
    <<
      6324377, 12893065, 15548930, 14152206, 14150688, 257333, 3591092,
      15619150, 14624835, 5112883, 10678056, 7945211, 711221, 14395574,
      15988218, 12706799, 4289660, 582505, 5132166, 9474724, 7114884,
      1613137, 9873626, 14405428, 2086945, 9661963, 11520533, 12230236,
      13962679, 3307375, 8595287, 16164548, 13328840, 15858467, 10485423,
      5293271, 13838057, 15411266, 3035649, 9207096, 6017607, 8619175,
      7875130, 8802198, 1744564, 14819515, 16326017, 13984766, 10670804,
      11375910, 1647955, 10075568, 9777361, 5977639, 6952914, 5925961,
      3177544, 11343580, 2699999, 10379041, 7729993, 1215641, 1180610,
      6768790, 9446878, 1163552, 8639055, 10666210, 2132047, 12236971,
      14682767, 16243165, 679923, 9094480, 2886890, 1297081, 13709976,
      9762744, 3704669, 12955980, 7117180, 14456709, 9388237, 7497873,
      7307506, 13500336, 8290223, 10256622, 8467985, 10970257, 8099010,
      7420368, 966523, 13758856, 13695854, 8302502, 4745421, 2839477, 800940,
      16562302, 6849870, 13926594, 13664106, 6321868, 10549952, 16219067,
      7671117, 309734, 8019506, 15729037, 3684709, 7200877, 10369359,
      9667472, 5879689, 15899643, 1076905, 14083623, 2182887, 2092335,
      1553965, 3925183, 11483993, 3143970, 14800770, 10665219, 12675119,
      2266207, 3682234, 15517935, 2467725, 14831827, 15947387, 12725116,
      6274376, 3535273, 2805330, 10589624, 9587156, 15038444, 10380874,
      13252229, 9071930, 8772984, 7582345, 6195409, 5096477, 6085640,
      8299184, 8325053, 7675851, 7831513, 11430923, 7078863, 7520582,
      6310937, 5954540, 8425978, 16544898, 15550961, 1857652, 14564717,
      12677117, 4423612, 7000493, 5334932, 13512313, 469219, 11881519,
      16278210, 9498294, 13607681, 10236402, 15319094, 3851127, 9599967,
      269351, 2958019, 12524955, 10481220, 4342927, 8646801, 1863970,
      12440103, 13612682, 4364978, 9914902, 13210228, 542763, 1042914,
      8715258, 13619543, 2744211, 11968175, 14516577, 547812, 4546429,
      15138286, 15767800, 2916472, 10276739, 5344948, 1314183, 1703234,
      6859139, 11259129, 16215007, 10039040, 11760431, 10950647, 2598778,
      9123446, 6172227, 2129716, 4592232, 16149407, 1566897, 16299135,
      9960095, 1558084, 11659761, 9456221, 3638086, 16202098, 9258725,
      11843427, 14448056, 10691123, 14971229, 13968455, 2873959, 1223856,
      1256803, 10326061, 15306976, 263975, 5477105, 11965840, 2785739,
      8451016, 13402522, 3861209, 4432509, 1250991, 12046404, 1566714,
      11591479, 2058920
    >>,
    \* random.seed(26)
    <<
      12537466, 15212443, 3401624, 11064361, 3441991, 7255438, 10079032,
      9127046, 952229, 2145343, 13024632, 15957991, 12824690, 8006991,
      700218, 12250240, 11465464, 10459076, 8434535, 2879263, 10660976,
      7207459, 16000978, 4067632, 16555044, 12544955, 6864241, 12032973,
      14162377, 3388053, 13191999, 11618201, 16303343, 14360185, 483043,
      11184699, 15735258, 14331451, 3729268, 2419329, 2171162, 3632159,
      10023679, 8106414, 14073718, 12839129, 16050323, 6520970, 6111583,
      4087693, 13886324, 9800403, 516581, 509733, 16248835, 12365081,
      4923439, 14171236, 9118556, 9004212, 2086022, 8547974, 735307,
      10811025, 129013, 7790183, 10068970, 11029501, 9414086, 5261594,
      13689296, 5355042, 14279756, 11175130, 7104363, 7247949, 14216044,
      11627899, 3367717, 942938, 14778873, 15954818, 4203421, 3311422,
      15766426, 10472854, 6447623, 14544357, 7181704, 10185870, 8695967,
      2617074, 988460, 1668094, 1256460, 2111046, 9142536, 9204896, 11980479,
      13072133, 750759, 788708, 6824151, 3658163, 6207034, 10002045,
      13105598, 16629880, 16616774, 15320374, 1519817, 14333523, 9121570,
      5482629, 1747937, 6832411, 13148978, 755402, 15807778, 7054402,
      11852686, 7673486, 9756647, 1255441, 679880, 5910418, 1615024,
      11332394, 4021083, 13309155, 1371303, 16125766, 2244549, 11386980,
      16094610, 4638358, 5837181, 14771467, 15214568, 13548216, 12764693,
      10150849, 13009067, 16092404, 15315231, 11441082, 11708996, 7319125,
      5832541, 8744766, 7879768, 10117467, 6544311, 11928595, 541831,
      16215076, 739670, 2549081, 9522641, 136797, 8770133, 1871305, 16314608,
      16121674, 10412083, 15851931, 13735308, 11542001, 7994457, 558141,
      9764592, 3070817, 13682611, 10249681, 571617, 11655547, 321281,
      13557080, 7207855, 816981, 4902334, 16316132, 7182223, 2749440,
      1073935, 4894644, 2833523, 15079625, 1651696, 1119650, 10212535,
      14566979, 554298, 14763614, 344122, 14168239, 11420295, 15413804,
      7101662, 9153820, 381892, 13516249, 15777702, 4641910, 8230842,
      13746248, 15721618, 5396447, 10880804, 10523576, 9175965, 12084395,
      6630387, 486064, 1688272, 1859928, 16203556, 3471021, 7376060, 3990983,
      5135988, 3931992, 2440813, 14064419, 9995603, 8391394, 16495953,
      6473716, 6741710, 10460348, 13540259, 5306786, 11741479, 1367046,
      8642129, 15435305, 10961433, 1107686, 12286754, 2590495, 15574900,
      11555855, 740360, 397564, 2413201, 6662059, 4065981, 5426439
    >>,
    \* random.seed(27)
    <<
      10879977, 8051082, 11767028, 4650953, 16056584, 4797878, 3295097,
      1240658, 1096713, 4268204, 13828744, 9052377, 5587931, 4243171,
      6247411, 13994745, 13671179, 6759568, 3075847, 4158045, 15261922,
      4023675, 8240456, 13779829, 1196839, 12242979, 15398336, 10696562,
      9613319, 10976245, 1320905, 10247454, 14069028, 7133891, 12999239,
      7011311, 12417980, 884362, 11031492, 7373290, 16654830, 5867175,
      203063, 14177041, 16348239, 13691195, 10783523, 8028078, 4243611,
      2307343, 10275104, 15774057, 5667885, 10234461, 10910463, 3816337,
      11815305, 13665323, 8795181, 2365106, 1656554, 16369743, 6575676,
      12615556, 5067322, 15290554, 12573031, 13351737, 15623393, 630402,
      13013302, 11405732, 8900045, 1424652, 2855184, 7710340, 11870539,
      2543701, 4446925, 9064457, 16731853, 854384, 2900937, 16365936,
      16244341, 10910402, 252479, 7584473, 13081378, 2537019, 5810913,
      14926226, 9631400, 9641245, 6976167, 1090250, 5165975, 16720477,
      7343136, 14636965, 13686867, 7845292, 5917428, 212833, 6055454,
      2633679, 13110298, 4452733, 2981453, 8103537, 5996117, 14743416,
      8664697, 1031469, 8679727, 4181630, 2851382, 3488905, 12825012,
      12333090, 8206339, 9323351, 1534238, 5613464, 5676860, 12813424,
      959644, 6594791, 5766991, 10669630, 1917830, 5066157, 4267311,
      13359819, 9326503, 11665882, 11568574, 1382462, 5030135, 7660131,
      7775468, 4777572, 8610387, 1968855, 9828933, 377346, 15216025, 4780975,
      3633945, 14840893, 12974968, 8013435, 9299129, 9103690, 15007754,
      16250199, 11494258, 2028901, 65253, 9941030, 964647, 6255997, 13373800,
      3181660, 4968751, 11737128, 10304559, 14345091, 1629012, 538778,
      9431368, 7095218, 6889450, 12515692, 7727522, 12357435, 58204, 3031750,
      15027880, 16090529, 14159552, 5900956, 12451022, 243726, 10418415,
      3191082, 3806082, 6391703, 3218137, 16611827, 14057650, 12523443,
      5525669, 13942268, 6437246, 13863157, 14764042, 1053595, 5785838,
      16527701, 16661166, 712433, 3078002, 1049432, 14287137, 1314265,
      4940042, 3904635, 2302348, 15937137, 7757264, 10147670, 13832009,
      8011768, 1719340, 3900120, 9980304, 6182094, 14358289, 4703974, 509504,
      11056342, 8236579, 2706431, 5239331, 8975129, 7842332, 3587759,
      13944791, 16478506, 7334403, 13499303, 5099989, 11245902, 3413598,
      8546141, 13705462, 13594774, 2520510, 12057577, 12002424, 5571011,
      16703633, 9538978, 11605831, 973871, 15119079, 3805129
    >>,
    \* random.seed(28)
    <<
      1895106, 12454632, 2195335, 9154580, 10020374, 11946916, 2987106,
      3798472, 2222926, 10702762, 7786281, 12812044, 7005628, 3538677,
      3579069, 2421219, 6571253, 2732571, 14130843, 16025799, 2199530,
      10173743, 3147174, 3376044, 466346, 6828317, 4024637, 1166752, 1593586,
      7053026, 16521195, 15063958, 5277359, 11685792, 16592841, 13846407,
      2171614, 2959347, 15166603, 15650963, 8496879, 8719562, 11585905,
      12127997, 11110167, 13377016, 4541383, 10274133, 3901602, 15394129,
      11399437, 7532087, 2204954, 3356346, 222026, 15679718, 12936113,
      4769786, 10620638, 11334427, 4363976, 1319669, 8729876, 8952605,
      15265813, 15317532, 4679322, 12174379, 2077339, 9661890, 7000081,
      14866745, 2810845, 3390959, 6175823, 1161345, 547299, 7202831,
      12813452, 14021483, 13530395, 8190009, 6268789, 2676119, 6333919,
      13378853, 4320190, 14035266, 16003455, 6479667, 14726022, 8461683,
      11113138, 11254890, 2935221, 3863173, 2891792, 5178761, 12873195,
      9851093, 3183551, 12572936, 11551873, 8981970, 7063832, 15847954,
      521002, 3726371, 3316404, 1030170, 15323340, 16150930, 5408385,
      6019918, 11318591, 11623583, 12777935, 15035792, 6687065, 1783308,
      8373939, 13673654, 14431402, 2499510, 12197314, 8363943, 8740157,
      3456960, 9137917, 13263028, 7520283, 9537212, 7155951, 2672043,
      11258025, 6999754, 4087171, 7810657, 14520723, 15457154, 4938518,
      7845076, 3880983, 3960400, 16167982, 559808, 253517, 7306494, 6830174,
      11533281, 9270596, 4233448, 7379533, 2307564, 13916782, 14265208,
      11299882, 8754643, 8460116, 15462716, 59682, 10876788, 16519687,
      7635914, 6131745, 11311861, 6036823, 1431075, 3684096, 6774497,
      3295901, 9338906, 1721776, 10385171, 2203933, 1985437, 11282660,
      10821924, 4970556, 14612879, 8570688, 10182418, 10948504, 7500942,
      1209712, 2565673, 12750894, 12818713, 3258877, 2866802, 13502971,
      8741227, 14896228, 1458637, 7567333, 8495567, 5360498, 15878394,
      8488202, 8092576, 15100900, 12369915, 16419445, 13358335, 12011572,
      6562024, 6726079, 12834567, 6713110, 14220805, 11695098, 1153356,
      5534595, 4047026, 13243148, 8903244, 5738156, 9651337, 9661166,
      15647986, 8723965, 6288499, 8813595, 1487398, 14119528, 5590134,
      14938400, 16478123, 13099742, 1574800, 10805743, 12945813, 6655016,
      4879016, 6575971, 14339086, 7733572, 16077069, 14251077, 2288034,
      12343501, 12421746, 1527751, 6716256, 4088686, 15160402, 1038140,
      2231323
    >>,
    \* random.seed(29)
    <<
      9195911, 1277014, 5802095, 10041685, 14174249, 10162623, 4841861,
      1455120, 8562168, 15556851, 5768246, 6592028, 6970831, 312931,
      16338639, 542643, 1740345, 14217353, 7460883, 10942050, 3771645,
      13473349, 5864753, 1434799, 16756078, 8353207, 5524719, 15392328,
      10196819, 9097751, 7040002, 14027095, 12254978, 3344399, 7502897,
      16392818, 2859438, 3681718, 7279846, 13155547, 6846112, 11312434,
      13299594, 11472020, 9438969, 8782856, 3295066, 9120601, 11305246,
      7087209, 5005908, 4668682, 8588102, 12591091, 3688575, 13736350,
      6891316, 16083078, 13188789, 7927176, 8652074, 2410545, 12621883,
      5152044, 12695982, 5021534, 9849793, 11877701, 10823994, 7908806,
      6665365, 13773450, 10367514, 14234533, 13039896, 15020161, 1664025,
      12265173, 15730819, 14925889, 6161221, 14385777, 2333909, 4430591,
      2516586, 11552246, 5715594, 13454549, 1162089, 9262816, 6674984,
      2739938, 6964030, 10488825, 10994889, 7147131, 7828044, 4718921,
      15691493, 10359528, 11062474, 2612131, 5385829, 12507082, 14678323,
      14167376, 11728113, 16329458, 16228899, 10653977, 12320239, 12261212,
      16200486, 11313566, 3442988, 11268170, 4670100, 255271, 16312607,
      12667554, 367026, 6686140, 15498046, 6951646, 15273969, 9203061,
      2280032, 7322150, 2529574, 4869078, 15367078, 159158, 16101295,
      14628108, 14590375, 810660, 12155185, 662026, 12747051, 10838357,
      5164907, 2021939, 124099, 15786475, 10534134, 8695176, 14801238,
      981998, 15920635, 646884, 8637184, 12832504, 140276, 2538701, 2925256,
      12009241, 7534693, 6200775, 3868923, 1103708, 464402, 12259650,
      3232860, 4314020, 8386503, 374553, 2128588, 3270954, 1891833, 12446066,
      2775941, 14159909, 565167, 10866914, 13145335, 6347489, 14522785,
      3747143, 3385005, 3411702, 10636591, 14568247, 14701238, 8930164,
      4087168, 15826099, 5593838, 3807619, 14787665, 13828498, 12782509,
      18320, 10421431, 1934248, 13319585, 11826054, 9613226, 4234076,
      5282328, 3880601, 11496057, 6959035, 13151898, 16309080, 930734,
      14981389, 5403836, 6913244, 4937889, 9657502, 14871156, 2739956,
      4833788, 6837059, 11302578, 1948947, 7295743, 882847, 6346965, 6890678,
      8387981, 13201327, 15015272, 454367, 11042214, 5451579, 6532714,
      2295973, 2523588, 2858225, 5778430, 10417759, 7899778, 6774466,
      10838830, 8616571, 16752768, 1444999, 5450979, 3328579, 15772266,
      7965798, 15279984, 747297, 7431266, 13922816, 3727198, 9874440
    >>,
    \* random.seed(30)
    <<
      9044287, 13557284, 4851911, 10250935, 503935, 10433348, 10966188,
      13875657, 3523361, 16390142, 4316391, 813292, 6663881, 6311237,
      10763895, 2249341, 16589499, 1364280, 7743239, 127618, 16667912,
      8763724, 16652594, 15643081, 4071419, 433703, 1218782, 16775454,
      2682693, 15242718, 14124783, 13691877, 10058859, 8905748, 15392469,
      6740733, 16310291, 13956702, 10979409, 5845190, 8979246, 14798678,
      1134660, 6734566, 394433, 4171116, 13510596, 9442516, 11273781,
      4694267, 12801212, 7194463, 9490073, 1602003, 11306061, 4671276,
      10715990, 9433562, 15018555, 16273425, 1874854, 10292210, 8295501,
      15665660, 5187415, 2170053, 13914098, 5177830, 14714910, 5229867,
      4228364, 8506000, 1347923, 2320928, 4080615, 11733706, 5278363,
      1988499, 12912333, 482249, 6874064, 15374672, 12581227, 8485644,
      5049181, 3004642, 8786940, 10788800, 3126747, 7919248, 10827751,
      5557339, 8608471, 7570964, 14473070, 11022663, 15912565, 5574250,
      8724461, 5664870, 1145138, 339410, 15724800, 11007155, 15851849,
      1723395, 7956658, 14732231, 8147864, 4387840, 15645342, 8033838,
      4255855, 9740803, 4288235, 15004881, 11664017, 14723121, 11324248,
      2851824, 11510168, 3107510, 13891722, 3136376, 8596960, 4778529,
      7048841, 11163927, 3783380, 15682383, 3579170, 8001779, 6205108,
      15683561, 7243355, 15074077, 12409177, 13671388, 10402389, 5023844,
      8568702, 16075348, 6378003, 11097618, 10493256, 15421916, 6413580,
      5056851, 13376546, 13624788, 10801373, 13944525, 11655439, 7908107,
      6261628, 5206552, 8688873, 2326215, 12100454, 2661801, 16050275,
      4965026, 8871310, 15689526, 5381885, 343276, 11564137, 3167735,
      2005523, 12957928, 5613844, 9433175, 548612, 9756881, 9274433,
      15439410, 4258628, 14209209, 6572621, 12171095, 13212517, 13803568,
      10660279, 8920362, 620272, 11805297, 7428076, 11040947, 112522,
      2418908, 13810893, 9983016, 8329684, 10265348, 14267524, 6256714,
      4440014, 7349446, 13808788, 8668352, 2325160, 2237229, 14552917,
      15424869, 6537964, 8848876, 1228991, 12573455, 15353264, 5575610,
      14037998, 437455, 3248474, 6836959, 9687996, 16363080, 7990210, 54223,
      2394980, 16338314, 7135492, 16165139, 16320079, 1075325, 6386788,
      4183829, 12731434, 4908897, 12755308, 5015079, 12906583, 14895323,
      10271728, 233205, 15138078, 5279057, 5740736, 43876, 8029911, 12785419,
      7508328, 10912248, 1692972, 5975354, 8205499, 15885993, 12790442,
      8006502
    >>,
    \* random.seed(31)
    <<
      205994, 7878214, 1885739, 12817405, 6590717, 2363158, 11473338, 725920,
      2326847, 15942842, 1886489, 8979369, 3888998, 11937162, 12710292,
      2341959, 2472982, 16470437, 12426132, 555588, 11109313, 1016989,
      2291407, 3878375, 8986912, 12287193, 7512014, 8825979, 6921777,
      3438137, 16715873, 9950255, 1562149, 1982197, 341692, 12922615,
      15767259, 14892615, 6760308, 5729976, 3330237, 3454893, 5541672,
      6575656, 6121917, 10013593, 16024134, 4136646, 3528790, 12146274,
      3639414, 6984988, 9813009, 11118659, 9183537, 1007521, 16001153,
      865091, 14070763, 3018057, 5964369, 2260571, 3420166, 2476737,
      14032690, 13355696, 16592295, 6315146, 509519, 1444733, 12332022,
      8912616, 14568590, 7359838, 10924495, 13570653, 3663456, 3485309,
      13364634, 7254310, 12244318, 6165153, 3251623, 5547289, 10752272,
      13737559, 3677284, 8088198, 694802, 4419058, 5637313, 4921986, 5609340,
      9594862, 6646563, 8083665, 10850892, 10917906, 14028658, 5307918,
      16128331, 3576172, 16381790, 12570544, 16668265, 1598981, 13251443,
      12960084, 5139081, 15039599, 2957791, 9393330, 10464818, 15702841,
      9157319, 14064443, 11316484, 4950627, 1569069, 2912172, 3234497,
      482473, 15452103, 13319273, 10089642, 6286949, 11666330, 16056188,
      1604660, 11233578, 6696999, 4778407, 15268831, 5126742, 10893949,
      14079951, 16637190, 14845748, 3303320, 1912518, 7630278, 3399080,
      13430915, 5602444, 7460435, 6760101, 13235787, 814183, 9423418,
      11978912, 1980337, 4491130, 1658695, 14648342, 16491932, 10689198,
      2001844, 16119120, 3256579, 3374002, 5623944, 2723770, 11969868,
      16611855, 14329235, 2547976, 7980695, 972366, 8357530, 10261474,
      13227781, 8590500, 4664092, 14434702, 6247842, 16466172, 10279758,
      8225116, 10674080, 9910049, 638810, 14336990, 1879382, 8144039,
      2314098, 13376472, 12165633, 10171392, 11625274, 8349339, 16326822,
      13911458, 12877204, 412424, 4274063, 8216714, 12842947, 13113727,
      16526104, 7883211, 5850123, 3983573, 187678, 1623629, 6294647, 9775876,
      4739898, 7479994, 2954691, 16662089, 756512, 2217014, 2094681, 9515476,
      14515486, 10298616, 838661, 15491519, 10300386, 14878970, 3464611,
      13235917, 3243293, 15882391, 13769509, 14537550, 5011799, 11564702,
      3084070, 9302846, 7631139, 9370481, 11659066, 8613429, 8797686,
      11905483, 14423742, 8446355, 6734352, 3807413, 8791931, 3265376,
      12030900, 10310181, 7743371, 5175412, 12029404, 13745044
    >>,
    \* random.seed(32)
    <<
      1298921, 15544049, 3583895, 2426741, 5085649, 11716435, 15103079,
      3989537, 8325735, 408048, 12083631, 646766, 1681670, 5447903, 8538379,
      5542203, 14144416, 957349, 8771116, 11585796, 15849448, 16654081,
      14794151, 7864671, 6223687, 10086668, 12517, 9100122, 12671280,
      13111979, 2120794, 8802342, 157887, 8144826, 12258845, 12968684,
      14140541, 3405188, 14035441, 4828986, 15996000, 15520399, 3383465,
      7486954, 1367355, 5606789, 2025849, 589861, 16403850, 8815830, 1877796,
      12208378, 2676677, 7362801, 337215, 7237497, 827657, 15465377, 642006,
      9320629, 5922900, 3804849, 2739187, 7851823, 5195479, 12221028,
      15582849, 8260980, 2809885, 8969798, 13662631, 13632192, 12387582,
      5021225, 9538217, 9663157, 9658558, 1382214, 12920878, 556031, 9849800,
      4868957, 3846939, 4838711, 5527727, 1320061, 4093862, 11122417,
      6721685, 14115546, 16563503, 4854025, 7159709, 11687643, 1168381,
      13309492, 7998467, 152955, 13634636, 3022247, 7475099, 2733093,
      11782663, 16632573, 1525135, 14484666, 1046968, 2219515, 11102245,
      4360321, 809763, 9260990, 5066851, 2441967, 6452899, 938373, 3246620,
      9889216, 610098, 8215934, 113052, 8461848, 15965687, 8799854, 11554488,
      5491430, 15968426, 6049237, 8249463, 8030535, 16012417, 15704040,
      14471140, 4188851, 10368818, 5416734, 8810729, 9581130, 8534052,
      3911810, 3782648, 6434197, 6311795, 9740624, 12128294, 6220375,
      3275585, 13895161, 14259262, 16073235, 8553594, 2157927, 10136267,
      11481286, 13788131, 5886987, 10841325, 6215828, 2310599, 10421907,
      4156586, 16236356, 17733, 8375248, 459470, 1806915, 15963193, 19288,
      9948714, 14340091, 16253490, 2799727, 13095770, 14336669, 5298460,
      13047366, 16226384, 6993045, 15478009, 3798447, 7655833, 6721842,
      1396905, 16410487, 5342460, 7282054, 2790029, 15773807, 6133476,
      5081648, 1384460, 15384414, 11966241, 8426128, 16434239, 13105631,
      3535984, 2177461, 13086810, 11606122, 9804904, 4396658, 8097450,
      11415251, 15222015, 6148629, 6330288, 1561620, 13775413, 12865863,
      583152, 10193530, 16195947, 14623072, 3063565, 14827007, 62739, 809788,
      14786138, 10032039, 12103560, 3324995, 11321408, 8890427, 12850602,
      5398760, 6331083, 3701593, 1919570, 6715298, 5338409, 3196415,
      15999741, 10990182, 16466130, 2617464, 3859115, 10396704, 7419255,
      972550, 7559993, 11419295, 15170253, 436455, 92726, 7794242, 13911919,
      14195816
    >>,
    \* random.seed(33)
    <<
      9568523, 2806052, 10607109, 3912743, 13707050, 14105667, 4652168,
      8035734, 10936395, 14768379, 14945327, 8936815, 15247612, 8847643,
      3129161, 16428763, 10934166, 15186739, 10353509, 15829418, 8445547,
      5385406, 16210111, 11526385, 8862836, 8069255, 7470124, 4734606,
      15830329, 11289693, 10663931, 1187365, 5054882, 6941895, 5188512,
      8694652, 8323186, 15080298, 882448, 12466889, 10193529, 14425752,
      12345591, 11361956, 7149473, 13677444, 14203387, 4705709, 15568997,
      5359676, 9321554, 12830557, 11431199, 4120801, 1967251, 14505068,
      939852, 5357176, 16442047, 14892356, 4772113, 16696850, 3579632,
      16618010, 15043480, 1111122, 12579877, 6137908, 2066665, 10964102,
      5396746, 12911203, 4071465, 8603248, 4575246, 5370511, 106919, 5936988,
      8802730, 11047848, 5106021, 9312145, 6613736, 6527047, 3111102,
      11532844, 1846917, 14750311, 552215, 6116611, 14642406, 10526182,
      12538782, 11457753, 9389401, 14295229, 2077722, 1062389, 2498959,
      1564730, 2007440, 13558682, 5310874, 50983, 966318, 6878500, 4620517,
      5841289, 3404009, 14547192, 3235291, 11354595, 10967750, 6518760,
      7680600, 10027084, 7943680, 13249025, 6007269, 9892340, 9043153,
      7621461, 13172819, 14444241, 5167492, 8155515, 1178208, 162674,
      8072711, 6371472, 6361399, 12715105, 13094717, 6065683, 1862133,
      11200720, 14641945, 4090113, 248754, 15719000, 9097221, 10648417,
      7442329, 12130391, 5290378, 14640308, 14913280, 14155314, 11779298,
      14482828, 2738231, 15264737, 8303709, 12236735, 10272063, 8110061,
      562108, 11590247, 1467446, 14857416, 10095477, 15607029, 12239087,
      4726536, 7762633, 4693050, 7081031, 15884937, 8505132, 6818055,
      4371911, 7927667, 14705093, 10438061, 16135527, 12709632, 8085039,
      6506543, 344477, 12734642, 6662387, 5328854, 13472928, 16056203,
      5451830, 2812748, 1771091, 16073696, 3108190, 15350900, 11939924,
      5363855, 10435742, 15977942, 4801060, 15228146, 10461845, 2893813,
      12761766, 12149227, 16208585, 5932192, 13946880, 7181957, 7280796,
      15615645, 13582325, 5617527, 15525805, 10841257, 14578503, 6178738,
      12591101, 14458755, 9842249, 11021214, 8580658, 584479, 14265061,
      12529369, 10486862, 15039225, 12100201, 215821, 3823801, 8063579,
      1546602, 13371436, 4535802, 14224719, 9787354, 1311743, 9613197,
      1969815, 3332439, 14465215, 3164242, 3339687, 15940022, 10216582,
      1199610, 1082299, 15542428, 11406032, 12952530, 184926, 9624463, 7294280
    >>,
    \* random.seed(34)
    <<
      8874063, 5990675, 9827201, 464266, 14148665, 3847220, 15076755, 501785,
      14800633, 6527266, 6118580, 16015064, 15918901, 1083287, 7114789,
      16030496, 5136911, 5723277, 1585998, 9798711, 8584534, 13799844,
      2597504, 1618895, 4600808, 5822949, 10243922, 24631, 13025452, 2599651,
      12627561, 8788669, 1449604, 13442375, 1027323, 6194198, 4281828,
      12412080, 9260357, 11827104, 14073461, 1002122, 13429576, 6488407,
      15665725, 2797595, 9878295, 14655514, 10681879, 5201049, 4898229,
      6402244, 5265564, 3570026, 3456162, 7602030, 8980480, 3006533,
      10188059, 2200010, 9616573, 12051585, 6576363, 9117874, 7111840,
      3961807, 4168223, 11476577, 13676588, 1878004, 9748289, 11261970,
      12561039, 1256380, 13616927, 7457290, 4711687, 6961258, 1963431,
      9751048, 4746160, 15325570, 15220459, 3318379, 13281725, 2931376,
      6802602, 13099491, 13028785, 15205251, 5737274, 7568891, 14519043,
      15224255, 1514397, 8730067, 12430662, 13890007, 16448122, 7959781,
      7047645, 14520134, 7749501, 6084277, 2195800, 7449026, 4617993,
      2351302, 3923411, 2631557, 4968991, 5219107, 1149034, 15352682,
      5023541, 8674890, 1750249, 9808472, 8801252, 4986534, 6818305,
      15658734, 3816139, 6841987, 15824580, 14204288, 5191592, 12784803,
      8916901, 15403070, 15010293, 12144344, 12722743, 5941485, 16200502,
      12482888, 10224184, 13870338, 14609630, 7635378, 1092197, 1203104,
      12316150, 822493, 5638898, 6871417, 5382778, 2908983, 12912216,
      3121503, 12444393, 6975358, 5736136, 8085854, 6097148, 11108553,
      4674442, 34983, 15669929, 11985322, 10313322, 10685121, 4360948,
      8593003, 8930408, 13207157, 968979, 2702784, 4522698, 1980804, 8412852,
      4409543, 16318755, 1425190, 14397592, 11168043, 9186173, 7697874,
      12802894, 2408929, 4225876, 10823240, 11646970, 15010244, 16713201,
      13013681, 2583704, 7854525, 15646938, 3015955, 16531853, 10905423,
      6174028, 12377529, 13656167, 6322372, 16586379, 15469425, 2479492,
      1860843, 7798142, 5465003, 9962507, 2892091, 13318562, 2166939,
      4462733, 12458526, 12613385, 7573272, 11810845, 13750930, 14392266,
      9277526, 12323043, 13903590, 14444305, 16337674, 10134420, 9546423,
      9113844, 16207188, 7746439, 390004, 6824739, 13782534, 7761279,
      10454167, 8277306, 10567992, 6576114, 2836729, 2433951, 1260641,
      6672172, 6722514, 15855668, 8723492, 5135107, 14696272, 16487608,
      2772816, 13966122, 8680447, 7607945, 7766589, 3655928, 6881643
    >>,
    \* random.seed(35)
    <<
      9205567, 5626571, 12591987, 2209986, 12537726, 5712102, 14513048,
      2584508, 4796720, 7243151, 16199617, 4230350, 9508319, 1037020,
      12539108, 8820682, 12665092, 14475357, 15589379, 13421215, 4598839,
      10953805, 6150893, 13512574, 12035043, 15425790, 9819648, 15615604,
      12589083, 1622572, 6111782, 144633, 16026204, 8625005, 189179, 1621786,
      12107813, 8309374, 6283860, 12264743, 423111, 5719849, 11326028,
      8324402, 865329, 392088, 3936800, 16438044, 5452359, 1319722, 2634759,
      5717290, 2753856, 9481814, 1235053, 8027377, 14194964, 6060409,
      1393502, 4931836, 2697941, 9672853, 1291814, 11311196, 15257552,
      2181157, 9158029, 12266595, 13798976, 7390219, 16315214, 13676843,
      8308971, 5418479, 6625837, 10382670, 6525007, 597911, 4440002,
      13020928, 9978359, 12912439, 16211652, 7653714, 8445534, 9307578,
      12694442, 754747, 14914429, 13861226, 13926560, 1921989, 11252450,
      5649072, 9199426, 7957042, 1641836, 1231618, 6331183, 6814453,
      14313638, 3319912, 7418554, 6494343, 11421678, 127169, 4357680,
      15270170, 9782260, 12120837, 3678130, 4136591, 13184957, 9722560,
      13647112, 2903851, 302575, 16082626, 11161227, 1332526, 1586323,
      1950818, 15923738, 11737963, 2945112, 408021, 2162213, 11732128,
      14975135, 8144090, 10312585, 10348816, 181942, 11265194, 7816870,
      8450278, 13907444, 12585308, 2772755, 13944567, 12627126, 8915901,
      4902878, 9163601, 7415013, 12410709, 6638336, 13614393, 899640,
      11696548, 6538728, 13854688, 8762170, 12353122, 10381225, 4626729,
      9055877, 8475728, 2847376, 5757485, 10160662, 8114850, 4865585,
      8325844, 15100580, 11450749, 1646899, 5773869, 13029396, 9166131,
      1432728, 10057924, 9447076, 14123853, 5892033, 12272364, 7712317,
      16472759, 11531062, 15997914, 13389134, 6375806, 61382, 7576437,
      14831020, 10272782, 10933559, 7708623, 1730294, 3926843, 11685081,
      15972907, 13585466, 13870450, 6245127, 11285176, 14735468, 9016477,
      2719742, 16033880, 7643329, 1771296, 4079697, 15240448, 13814994,
      12041983, 5116909, 2017343, 4182563, 7111548, 16758848, 1004366,
      6915231, 5887339, 7787379, 9424384, 11769378, 446607, 3007994,
      10194990, 13583534, 15241478, 11571561, 1732521, 8277828, 5396626,
      13398563, 12995456, 14711034, 8624276, 1647788, 15520706, 16115374,
      11931444, 8756732, 4130159, 13114440, 12262529, 11345990, 9121882,
      16152990, 7463233, 12832485, 14156262, 4079973, 15741465, 2431886,
      3509764
    >>,
    \* random.seed(36)
    <<
      5514679, 979282, 16495592, 349797, 16093503, 13444737, 15406927,
      15256970, 13252417, 4772763, 14681181, 1318594, 6757, 8430861,
      10519130, 2960432, 4154754, 4520027, 12254824, 10944700, 7254291,
      6115525, 9396720, 4497757, 9106254, 1304412, 9666394, 6842585,
      13880481, 8220995, 16467624, 6542421, 5797330, 12688836, 13524134,
      6637685, 14919375, 4082072, 6577857, 2812856, 2071269, 8625822,
      8344781, 11770901, 12828802, 3414891, 8794543, 4937806, 3094805,
      8249703, 11835824, 9953872, 5444738, 11966787, 14868648, 9214818,
      2826857, 53053, 9963705, 16727942, 6467075, 15111201, 16524649,
      8297849, 2325668, 12709910, 14765837, 3650864, 7006815, 15048541,
      6239194, 13478837, 3492372, 14559344, 8297874, 15658948, 15592160,
      12201058, 16765920, 12625780, 15763561, 4298105, 10255104, 612888,
      3960973, 10514747, 8509932, 7756773, 10900721, 8519641, 4965421,
      7594685, 16557597, 12202958, 1417957, 14195477, 3939792, 5064030,
      3409452, 9526015, 2810805, 2977806, 1068540, 12167304, 4020236,
      16709509, 6271885, 7277466, 15758475, 11977833, 9142716, 271979,
      10482563, 6383211, 5840198, 8201394, 2854558, 8997548, 9457294,
      15757892, 12215564, 4256539, 1427330, 1659076, 10894219, 7624092,
      3521928, 3753722, 11576110, 12151467, 5961637, 16094433, 2475812,
      12969718, 2352527, 15265740, 13290520, 3039495, 9064183, 10741073,
      1435135, 7949967, 15190121, 13317444, 4641353, 14909077, 4697251,
      4951212, 43838, 9063955, 5035175, 11592786, 9392394, 15976168,
      15063280, 1000583, 5013987, 572911, 8349841, 12315009, 1341562,
      6296706, 11523380, 1970160, 5033482, 6900234, 6301894, 3121475,
      4543197, 5424574, 13729159, 14715041, 16447313, 3363446, 2314862,
      4734628, 7569372, 7204006, 1793345, 10543858, 12589580, 2933571,
      15220660, 1872555, 2116308, 7793346, 11452907, 5209766, 5099382,
      9202105, 7551862, 536576, 9601542, 2876152, 6445997, 1330097, 10927402,
      906087, 5481818, 4100006, 8322388, 4070604, 5986406, 1629201, 7107738,
      6079938, 2388015, 6047128, 6002787, 5159893, 1859681, 7816765,
      10420540, 7060107, 6995375, 10792398, 7020093, 6704383, 15055919,
      1524075, 2622604, 8574091, 8878362, 16052107, 10231707, 16183680,
      10591118, 9745338, 12760079, 11785205, 5959598, 16517646, 15521275,
      2779964, 11201943, 517465, 1256044, 12003252, 10159294, 12561145,
      8673551, 4207161, 15690859, 1199971, 12173822, 10787584, 11304853,
      2451019
    >>,
    \* random.seed(37)
    <<
      11442137, 10196466, 1536836, 15691956, 10365238, 11164110, 14125072,
      12529329, 14001430, 10643921, 8640563, 594616, 10587060, 16504226,
      6194648, 7344091, 8858682, 13239087, 1809534, 16483752, 11457998,
      7664761, 10077542, 13346905, 4729908, 15523467, 6351398, 16325349,
      12350237, 7100604, 7447027, 2422592, 16099685, 13424784, 16294971,
      15148286, 14065390, 830664, 1527188, 6930784, 1260851, 9121251,
      4841669, 15597822, 6058371, 10875508, 11827146, 7253653, 13872852,
      9861496, 9439270, 6143155, 10723846, 11830998, 9614682, 16281107,
      571374, 13540768, 8835945, 10391796, 3577637, 8475796, 6995475,
      1057332, 147371, 127145, 11002187, 8558521, 15271010, 6054858, 1151099,
      11864131, 9731905, 3772523, 393946, 5434191, 5903449, 8850004, 2672372,
      13772281, 14438169, 364079, 12214262, 226575, 15041364, 15807042,
      3656830, 12345452, 12061132, 5227183, 11735612, 3812576, 8567838,
      10895556, 15371181, 5061939, 10484522, 705808, 4744732, 4573578,
      12030821, 3415806, 8073814, 2401574, 3574092, 4469250, 10365047,
      10648209, 810110, 7361082, 7534087, 1761110, 9340988, 10883921, 42583,
      4475365, 10881199, 4012105, 1479695, 7437910, 10900901, 2184289,
      5723208, 5883205, 494136, 1642060, 16765974, 2505245, 1076630, 9692665,
      2622102, 10537969, 8485067, 11035098, 4112244, 13717161, 8899112,
      4840837, 7952859, 436615, 9672605, 3016715, 9120548, 14732417, 4936343,
      2285836, 3547669, 1878291, 11652554, 2782937, 7197125, 9726017,
      8733021, 9069899, 15366431, 11496847, 142345, 5995264, 4653055,
      1141675, 9452300, 14033988, 905872, 3761838, 12649603, 2879891,
      6733285, 7488902, 5307819, 1131866, 3262048, 1528302, 16220285,
      5209973, 781097, 3645548, 13781622, 3932504, 11820486, 7372190,
      15057318, 9468564, 11764939, 8339150, 5820705, 12670107, 9227058,
      4693362, 15462218, 10039607, 686032, 14193732, 14259787, 9119826,
      11298268, 13547829, 3302368, 12072958, 16219216, 14167269, 5025987,
      10732479, 76550, 15960712, 4487714, 9723992, 8643005, 14653187, 466271,
      4367503, 9927897, 16195635, 7458351, 3686978, 5582550, 16628481,
      12678009, 13878347, 10374378, 5989932, 16195842, 3439937, 14591019,
      10675625, 14430869, 6063348, 15654090, 1903774, 14259670, 6245627,
      8165390, 16229985, 1148091, 15362215, 7500822, 10122082, 10394929,
      9426503, 16264164, 2792575, 10971278, 13342401, 9634617, 12025489,
      1447673, 4757468, 10912997, 5342124
    >>,
    \* random.seed(38)
    <<
      10728588, 7065338, 7197777, 12658550, 12151717, 1704004, 1111179,
      6147129, 11708196, 7773648, 6290310, 732842, 10201157, 11157441,
      2853658, 9908794, 5780876, 5503575, 4478901, 11913587, 5527734,
      10436778, 12190271, 5165010, 7936473, 16616233, 16152967, 12815770,
      9778456, 6723296, 3746235, 15662376, 10281039, 1415483, 8859194,
      8195817, 2362725, 7325462, 8839013, 4134689, 195992, 6381959, 6281510,
      12121718, 8999076, 15260628, 11512904, 14485670, 16096293, 16662476,
      10312331, 8463462, 412347, 2450032, 7978135, 1718830, 4197674, 1920944,
      12537381, 2150199, 14992636, 7670841, 1455927, 1966901, 12945797,
      6618817, 4919422, 11343356, 3067379, 5971745, 7609024, 15268954,
      7025581, 8193540, 4823902, 10685552, 4426902, 3000970, 7272897,
      4431641, 11567451, 11579106, 2750265, 11718267, 6254974, 1318399,
      4013100, 8774258, 12223626, 9523618, 4161542, 5103645, 12409718,
      16645325, 482736, 2463434, 14357003, 14210075, 7176063, 15122504,
      15672756, 4014297, 13354772, 6107780, 14135898, 1119477, 505988,
      15425705, 12556886, 16549814, 8814236, 13914590, 14868348, 12385765,
      9507404, 15276934, 5826415, 14611232, 15171251, 9821891, 16689046,
      618067, 3706314, 6339849, 2446110, 11484496, 7410012, 15571756,
      11032200, 1084558, 2708077, 10042698, 9826498, 782122, 9108922,
      7433514, 13405716, 106243, 2438685, 6302570, 2357295, 15174747,
      8698353, 14624372, 12621174, 14291155, 9847022, 11393153, 12466652,
      12260259, 4424199, 3292422, 550240, 5716706, 11564452, 4231331,
      10858034, 12303099, 458232, 12961459, 1440776, 7751434, 11717925,
      9170564, 11184095, 16628240, 3495184, 4744855, 4386263, 2242295,
      7017931, 3104788, 347059, 8895590, 5034308, 11904347, 4024793, 6330599,
      704293, 1579462, 8802303, 9249856, 15791470, 15213641, 1304742,
      8981653, 11622082, 7431264, 10303578, 6457269, 4785292, 11681149,
      10795797, 114421, 12971921, 6859966, 4362538, 16574458, 6866450,
      15059635, 10520820, 7924634, 7384568, 5311119, 3114978, 3619589,
      6764979, 9503506, 11924021, 1805055, 9827447, 11909237, 5435463,
      10421558, 4711274, 15555231, 2836510, 366921, 11186097, 9695072,
      13064903, 15287918, 4067051, 3541091, 10425918, 5201671, 1151686,
      16104275, 2957266, 15876554, 9946397, 1988577, 6157496, 796883,
      7132177, 7688235, 924293, 15807819, 8489759, 6741654, 7943311,
      10573633, 3844997, 15759674, 10509972, 3363851, 3767573, 9708350
    >>,
    \* random.seed(39)
    <<
      3520719, 4356435, 6465904, 435189, 3272569, 3700060, 6637077, 12227688,
      9440217, 89346, 10834906, 13403716, 4272922, 11353301, 5974240,
      11918405, 2991344, 16087613, 13668229, 454804, 4932580, 11321175,
      14810473, 14217470, 1236727, 6144326, 144563, 1811280, 7111046,
      5835670, 7082958, 13254788, 12621123, 1629203, 14551094, 6570324,
      8612856, 9738856, 5029767, 4479913, 12016152, 1117354, 7720419,
      7227767, 4319931, 9692705, 5379556, 9484739, 8836, 12155988, 11893608,
      14503101, 763205, 10934398, 3154540, 15395410, 10396531, 15079752,
      10400919, 8069356, 10381548, 12616317, 10629445, 6391348, 13436463,
      5256062, 15849856, 13572034, 16237098, 4742651, 6500485, 10952703,
      5889699, 8032267, 2279373, 8904638, 7242498, 1186516, 2893889, 4994994,
      15666938, 11389431, 12642261, 4840862, 3951307, 13298226, 11604926,
      12197363, 11716717, 14120898, 1663644, 6667795, 13574365, 15835997,
      12301931, 14592735, 7927777, 16266757, 15835712, 8605952, 1479018,
      7001326, 568235, 275109, 12134382, 12231005, 11168375, 7016822, 70858,
      14878380, 10160128, 9666590, 9907477, 10894650, 6351077, 11671752,
      2124271, 16384513, 13729688, 12479721, 14965174, 14952392, 9320329,
      10457192, 3710577, 1978849, 9088188, 7399273, 10842501, 3401332,
      8667631, 14923678, 13468039, 13690904, 3807616, 14299967, 14820054,
      16523853, 12044367, 4050434, 2198720, 9094091, 1499475, 10342006,
      13053682, 8201556, 5552487, 14868527, 15097960, 15227618, 15624889,
      8540537, 4717176, 14486333, 12418855, 14621532, 3652307, 14039519,
      8406855, 16502259, 3177801, 14574069, 13398258, 9790881, 2390050,
      3013415, 15415751, 2881006, 6069430, 5395098, 4792508, 2999389, 665605,
      2034135, 3540188, 9486191, 1060802, 14676985, 3727785, 808529,
      16435696, 1736017, 10995160, 14799837, 1943633, 15927283, 1787495,
      13365823, 7700899, 16714211, 14703230, 9308774, 7611653, 13892400,
      5977108, 4468340, 11167413, 3419674, 2102920, 5312783, 3096041,
      4956665, 8915597, 1126511, 13995914, 1453618, 7760609, 1115037,
      4852854, 454031, 9003214, 1620425, 13442072, 3130994, 3477130, 6388358,
      2509571, 11254521, 8366249, 2105259, 5717218, 14037844, 2444027,
      10677000, 3558271, 7451798, 14494393, 11723387, 3390543, 5509783,
      5694967, 9627256, 15866711, 7509317, 6250221, 13155480, 15788973,
      935461, 14046923, 15533118, 8036824, 3971090, 7743596, 5707518, 299788,
      10101680, 6504045, 15568016
    >>,
    \* random.seed(40)
    <<
      7694143, 9722189, 14728179, 8790802, 534295, 4115285, 4738324,
      11149432, 16136178, 10688728, 11145418, 3461708, 2153730, 12784390,
      5845001, 4649281, 14759744, 12469467, 7394762, 13738432, 480365,
      8849918, 15035433, 12358732, 2178925, 995038, 10758659, 3388716,
      10394825, 11863510, 7728694, 14258935, 16139432, 892150, 2962058,
      13294910, 10145935, 5254837, 1905955, 4202061, 16200042, 5453560,
      2429452, 13108312, 8607583, 11421727, 13968978, 8781010, 14818471,
      16371719, 1636889, 6834808, 14718419, 823443, 14137337, 13808024,
      5297634, 12263155, 12691595, 5636002, 3809650, 12376051, 2580703,
      5204392, 2728036, 8730640, 5179891, 11668415, 13862139, 4888727,
      7748072, 13161779, 16593325, 2650446, 14996184, 9833223, 3530947,
      8254228, 7271540, 8662565, 1080424, 2865564, 9793206, 3439082,
      10221969, 13318759, 9820068, 150152, 1486513, 7835965, 10256990,
      5087232, 1883490, 3206407, 14109963, 4041568, 7740130, 7611735,
      1665787, 7908662, 16417406, 10712362, 15838135, 14649823, 5566271,
      10431639, 15596026, 7603138, 4781899, 14199767, 8947756, 15311118,
      9611235, 16581633, 13262165, 4144550, 1171526, 16068879, 623010,
      13519165, 2494341, 10187468, 6457126, 3134807, 13360761, 15809870,
      12134681, 7489689, 1810013, 14113405, 12320606, 6979510, 3181837,
      9851965, 324008, 7014672, 8039940, 8714402, 15264674, 4034338,
      15200495, 3734362, 7387130, 13117952, 13394286, 12153286, 3249693,
      2873888, 2677677, 5121623, 16078744, 4240309, 11259773, 1539895,
      2898952, 13580057, 5659917, 2738883, 12965448, 4180450, 964890,
      4058638, 3131580, 933572, 13483547, 8492132, 3963145, 3573486, 7032618,
      11273831, 7219626, 16709057, 7989493, 5216225, 5196751, 8590292,
      4168981, 525212, 13437972, 10738066, 12733798, 6700171, 15881899,
      12678703, 701957, 13847740, 2649084, 10800212, 14304620, 2725969,
      5242017, 12700676, 13300580, 488239, 5087480, 6087945, 6603745,
      10937320, 11238936, 12974846, 7151968, 5374535, 8809265, 12110021,
      604987, 8934340, 14340413, 15226093, 10383500, 8719011, 4297393,
      9851389, 7966756, 4285524, 10718783, 11829837, 15652261, 9066707,
      367978, 8853506, 15536822, 3596780, 9870708, 16293043, 689566, 9668763,
      6131488, 4731744, 12157572, 12659683, 1887022, 615996, 9874174,
      8643635, 9407500, 15558695, 9640841, 16688950, 446834, 5122985, 321264,
      4378764, 16188254, 2041149, 2768511, 12923827, 3122331, 9847521
    >>,
    \* random.seed(41)
    <<
      6392466, 5573806, 3870825, 16653076, 2785633, 15133142, 15331580,
      6469793, 9696207, 15039303, 11578504, 4755631, 9278798, 4643702,
      6434801, 14293574, 12274617, 12805266, 9670856, 156501, 13106521,
      4178714, 11099486, 16741043, 14081084, 307588, 7371816, 15918297,
      2601297, 16553495, 2513815, 16441184, 12132773, 5349988, 2810364,
      4320353, 10983291, 11596469, 10414850, 9794326, 998230, 2010224,
      13158610, 9860903, 553752, 7257780, 14544029, 4728424, 14110408,
      12328403, 3621753, 1219996, 12184251, 6043248, 12286628, 7972289,
      2097215, 9315380, 11239934, 311012, 2076475, 1655722, 15321315,
      2409016, 11557010, 15113372, 16441754, 2982028, 898076, 4472165,
      5331803, 3780199, 10400194, 437482, 10204015, 9693685, 3054970,
      7296359, 14894482, 13364908, 14202372, 962857, 5056926, 6701704,
      2447923, 1790322, 11201462, 1568999, 6831533, 360739, 11128994,
      11013983, 8275605, 14420028, 6624055, 3865525, 363474, 1440781,
      2264073, 1306390, 7690964, 15866764, 12217374, 6741800, 7141463,
      8930683, 12489658, 4693359, 9056127, 471316, 14769865, 239045,
      10991067, 7780414, 5400090, 2958317, 2328879, 13541717, 1102767,
      12015903, 664315, 12083823, 14470077, 11443005, 14673209, 14289305,
      12605888, 14072534, 1834240, 16551364, 11081442, 11830648, 2141700,
      15012658, 14916077, 6933317, 10996437, 11909482, 12576497, 1431368,
      10218272, 8874541, 7019266, 10086890, 14233840, 1668954, 16134275,
      15859252, 4055950, 3701211, 7338148, 6093430, 12304767, 7711665,
      11407727, 12113729, 6888940, 13235952, 7549998, 1392384, 16234144,
      11216204, 4629538, 9095421, 3548925, 15587021, 11511347, 4174898,
      4646642, 6329153, 15056705, 11811944, 5464994, 13554545, 15512613,
      10446928, 6372198, 13214594, 14849821, 4944951, 12601756, 7399439,
      12281208, 1351789, 3595632, 9263879, 2755702, 3587658, 520498, 3784044,
      3030393, 7864904, 11182919, 4039775, 1079880, 16572076, 3979691,
      9187955, 9513279, 10447134, 2602983, 8267593, 5520880, 2046219,
      3831474, 6445903, 11342874, 12106373, 1988370, 13800947, 16735652,
      7503398, 10045143, 12412664, 11962943, 3238646, 9270321, 12978602,
      8352009, 6589264, 16285415, 5982560, 14994135, 4546442, 13789951,
      5935874, 500696, 2996107, 9890403, 11886483, 15799157, 2587873,
      10709000, 2567959, 8606503, 8694790, 10900170, 15431590, 2969713,
      6899522, 12208715, 16318790, 13148411, 16131400, 1203252, 703475,
      8552930, 11181939
    >>,
    \* random.seed(42)
    <<
      10727801, 1867825, 419610, 12441152, 4614226, 4108603, 3744854,
      2341057, 12355936, 1719583, 11353133, 12426342, 14968289, 9149732,
      1458591, 9906820, 7078673, 533224, 499914, 1571945, 3668136, 3903402,
      8478454, 10100198, 445199, 9416129, 3335942, 12012815, 10903251,
      11766280, 9142600, 7038374, 3698379, 7536477, 9886237, 4667265,
      13579989, 14584439, 109031, 12730675, 13519403, 2678638, 11712835,
      7090293, 5708456, 4661907, 2608513, 3612365, 16059370, 12809305,
      5647119, 1714803, 1556017, 6374122, 1622631, 6022674, 14218596,
      5770619, 10128842, 4437923, 13541365, 728977, 12242867, 7707870,
      8996414, 2094235, 16326173, 15473548, 6350753, 1322047, 9261704,
      4918715, 13915101, 10546825, 10377039, 14855415, 14457042, 6067228,
      9686361, 3226067, 11820753, 1166941, 768805, 11094157, 3823498,
      12969934, 4855124, 16529274, 1338687, 14349850, 3905582, 14537183,
      1694522, 6377459, 4663623, 7606962, 10665015, 13994050, 6120868,
      2728882, 6210606, 5960453, 3514944, 11243673, 4479144, 11774590,
      15714456, 11468026, 10872229, 1197935, 10219522, 10653167, 2871230,
      8961380, 12232717, 4107245, 2741438, 7755439, 6366205, 4528972,
      16601446, 15525487, 10737414, 11545441, 9344066, 3684531, 11485921,
      5440561, 14140708, 12890162, 13019118, 938483, 3842788, 13787559,
      538552, 13506427, 5292423, 6730428, 4491946, 1110460, 3539704,
      15319881, 15819399, 9515702, 14703008, 12044602, 5279418, 3567281,
      10996436, 8375710, 6637601, 14842520, 15343562, 10785264, 7698256,
      2396987, 4443951, 2342608, 4137722, 12498841, 9418194, 9042538,
      4408072, 12532812, 9807725, 7187926, 15062968, 9790057, 6700828,
      6073292, 3679591, 16732349, 16735903, 2320821, 8548432, 8279821,
      1525206, 12679920, 790481, 14446909, 1839607, 2564251, 10526797,
      2684052, 13288886, 11416580, 7082668, 10006083, 1065818, 6455324,
      6402509, 9997348, 16712143, 7852574, 8877065, 4218028, 16291991,
      9281590, 14441486, 15811366, 192619, 11413261, 12091705, 1921859,
      11437202, 14844286, 9008867, 12597639, 4476583, 12894946, 10753554,
      5707197, 1871534, 4924115, 7294150, 2653446, 7612220, 54447, 16002375,
      12114694, 14694373, 12074238, 4418934, 16305576, 8398441, 12783604,
      2997281, 8517485, 15311354, 1785277, 14604878, 10490796, 5007072,
      14120868, 10719793, 8517169, 10216824, 3337174, 2564217, 6273233,
      12792808, 2710343, 9049278, 15997071, 13063184, 15475875, 8897858,
      15409763
    >>,
    \* random.seed(43)
    <<
      646792, 4799696, 11680705, 12795717, 2414798, 16096167, 7760003,
      6205509, 11268362, 11717855, 13303514, 1615384, 7603253, 10046330,
      8359620, 10217128, 321402, 8624806, 7254280, 9674081, 6247410,
      10477537, 14299030, 15889729, 9176867, 14873140, 12672113, 15950519,
      7282454, 6609139, 2955945, 968349, 14275317, 1800268, 13761007,
      2089632, 6305855, 2574764, 1606302, 2694682, 8597154, 14000732,
      8321117, 2159299, 12957060, 6490296, 10019637, 16411481, 8500612,
      4562329, 9649565, 3050763, 6323755, 1065883, 820737, 9718502, 1026944,
      3130953, 15802520, 1030270, 14077731, 2780422, 4968736, 4618421,
      14910788, 1292599, 8761946, 10460964, 1728736, 16579772, 14356062,
      13649558, 9804220, 10972089, 15649573, 10901019, 11395952, 1024068,
      1578714, 14173313, 10447972, 7674252, 13201758, 10857282, 15081261,
      12136568, 5557872, 5539540, 8873325, 11141920, 11763431, 7361662,
      2798746, 2119600, 14233114, 1344719, 13100745, 5361026, 840492,
      14703324, 9922185, 4498425, 6174889, 12218650, 3120696, 11272306,
      10141497, 1180295, 16260048, 16665606, 9260516, 11117526, 1900889,
      4982935, 8303515, 15088865, 13071672, 12223472, 16026080, 6066170,
      11998697, 7281201, 693620, 7936677, 16216101, 6961274, 10097556,
      12979779, 1403382, 6008275, 2133335, 10820717, 1446662, 14655125,
      11153553, 12266128, 2585444, 9631641, 13547083, 5159381, 1827722,
      11577420, 8978977, 7126025, 7433592, 9850596, 637098, 2458992, 42269,
      1774292, 15158722, 13278250, 16384757, 13893065, 2085740, 2114501,
      12324387, 286084, 16595735, 12967115, 15163550, 13786014, 14848490,
      13096909, 5664676, 1988790, 12033944, 8931239, 8356921, 4345064,
      15726026, 12654015, 11794709, 7654344, 14154682, 5704445, 14381621,
      15942179, 6469209, 1462077, 11951489, 560511, 1559492, 12041606,
      3457680, 14217995, 15713064, 11279389, 6789072, 3254584, 11493182,
      15690157, 9657483, 6768976, 4367457, 9969890, 9836881, 6856893,
      15308433, 13429585, 5492019, 6675845, 5821642, 869756, 3117281,
      9019145, 2983500, 13140589, 13880919, 3149975, 11848249, 12375824,
      16189980, 857272, 11234901, 3916229, 16086328, 5031740, 3723455,
      5794849, 3150502, 13029115, 3632651, 16443786, 6438717, 13803194,
      16602574, 6528867, 3772591, 1018248, 7689294, 8412224, 1027115,
      1610408, 456435, 398352, 9157213, 14443939, 10288613, 14208042,
      8570420, 14897765, 15345715, 8450005, 14445054, 8480723, 15957147,
      1871275
    >>,
    \* random.seed(44)
    <<
      6854094, 8724496, 9092781, 11771133, 14462574, 1957153, 2963957,
      6368108, 3777549, 4858146, 488170, 3769613, 1957071, 9541021, 147733,
      1680743, 2628827, 12993077, 8618677, 11556472, 16600936, 5083203,
      11635171, 10636984, 6348944, 9915287, 6795573, 12852956, 11598250,
      11241301, 5471383, 6011014, 1234021, 5684471, 14118411, 4743415,
      10355232, 2668389, 1879213, 8573393, 1175523, 9875384, 1587586,
      4529874, 16088062, 5292011, 1807189, 15822892, 10491077, 13787965,
      16266643, 4860478, 587258, 5780607, 6473972, 1607474, 8007445, 7987741,
      15382852, 3197413, 3164068, 2181753, 4334341, 12534530, 4160156,
      13028524, 825518, 728883, 11303092, 16115716, 13702043, 11406176,
      7320990, 11909504, 634741, 12391732, 11971885, 11655419, 12365580,
      14167614, 10963005, 13614678, 5513879, 6199417, 13933170, 7900024,
      10579011, 7610642, 9898114, 13454695, 9068578, 2526428, 3913478,
      8110957, 7643238, 16668337, 13322110, 12358481, 11471510, 16693667,
      5803362, 10338997, 13750840, 16330055, 14083066, 12375112, 731875,
      4663555, 2638540, 155858, 3743777, 14816835, 244753, 9731424, 12640881,
      10130579, 10851342, 9328099, 9113412, 4726778, 16687717, 15844369,
      5984063, 9453597, 3339453, 6786906, 1870981, 6055620, 5706442, 1884764,
      14060255, 3754657, 10179190, 12024289, 994427, 16759071, 7268464,
      12762663, 804998, 11339168, 10453679, 7951483, 2055034, 2393814,
      3010507, 15644935, 10778497, 12333887, 14018284, 90543, 10395785,
      10895624, 4927443, 15452624, 10826606, 1057974, 4564226, 1248790,
      113065, 7302278, 4595487, 2992986, 11546681, 8786237, 10510511,
      11378843, 3231774, 14395719, 14103337, 16425644, 13936406, 1019771,
      4687115, 8105827, 16121745, 16409546, 4405095, 16333980, 1088443,
      16719818, 8593869, 12600891, 14511291, 13226802, 10061221, 5534862,
      9166109, 13382363, 8181427, 1097470, 4767055, 8239922, 5031140,
      6730379, 6762667, 5069166, 9178899, 14808223, 15818488, 7546116,
      1220932, 5325037, 4230333, 2209734, 15829080, 2220080, 11027708,
      2221498, 1247555, 15531569, 7409243, 6642904, 10921918, 5791499,
      15300201, 7440193, 1413098, 4597687, 15137966, 9666222, 12930126,
      2239500, 4674043, 12511089, 8949199, 8441618, 13848350, 6073377,
      4079082, 581569, 11766563, 3929702, 9396186, 8182635, 1224906, 8462102,
      4558738, 14498676, 6919617, 11608838, 2341437, 16595663, 15834942,
      7593879, 4195678, 2209272, 3888098, 15527283
    >>,
    \* random.seed(45)
    <<
      4561312, 7007695, 8187754, 4322827, 1373707, 5086719, 5683004, 362273,
      1213556, 8124466, 185159, 1926664, 4762217, 13550293, 1974785,
      16044655, 5218355, 14351565, 12473370, 10893514, 599881, 15084863,
      10484712, 1117916, 2265111, 4556446, 13339081, 15033818, 12364265,
      2585757, 3540165, 16652763, 14228363, 12762950, 12034325, 7187151,
      1257474, 10283052, 6847308, 2395878, 11751619, 959549, 15484669,
      539688, 2889224, 5379897, 4225559, 5981723, 13003902, 12166716,
      16150961, 5369006, 1572941, 6902080, 1507068, 356233, 12602698,
      5511408, 5318198, 13151411, 6489032, 11730341, 14702412, 15683938,
      12512439, 8902678, 11084974, 9007204, 14556785, 10604287, 12281657,
      10417564, 13593720, 11780916, 10791956, 4266152, 9951544, 11127309,
      1004368, 8265802, 15260750, 6269311, 15296867, 3517661, 5894566,
      2616473, 10508348, 13230593, 283518, 4188785, 8388082, 11937516,
      10458469, 7113975, 4928882, 3521818, 6954105, 6461925, 14016396,
      6375799, 2406412, 9803906, 7641457, 9300883, 1449083, 9397635, 6449461,
      1037745, 14806295, 8642946, 10275231, 15145572, 486578, 10473226,
      14405713, 9114582, 11044534, 10574391, 8733379, 12945546, 4839614,
      5339262, 5047347, 2821078, 3068045, 168409, 10438042, 4689452, 834863,
      6731718, 15851340, 14551394, 1723772, 49470, 10470278, 15348780,
      9662224, 11962047, 6077674, 10389918, 4670053, 7632399, 7367318,
      3363602, 5525618, 4541738, 16300627, 4065484, 10820792, 10528720,
      8700795, 15993788, 11127732, 3776112, 8284387, 463975, 2494459,
      16645861, 380861, 10026169, 16274576, 4407076, 14165130, 8046323,
      1595254, 2933547, 10245423, 3597150, 13171388, 1057696, 15003199,
      1537122, 1084952, 11617911, 2219186, 16408489, 6580286, 13334389,
      10113037, 2746270, 1387585, 11156584, 11672799, 11082851, 12661406,
      11880254, 7495800, 14362836, 14244281, 15105875, 6524522, 10899686,
      13982321, 4653994, 6411781, 12860675, 6748383, 14841258, 6327957,
      2732319, 11909445, 8816793, 14813404, 504417, 1211961, 5387634,
      9898760, 10754496, 14018013, 16302808, 11609825, 6960280, 3926762,
      5391545, 6113487, 7346872, 14868219, 9642195, 3620387, 13638681,
      16004306, 15761150, 6572847, 15475119, 8728807, 9038037, 11880079,
      18307, 11428017, 6924109, 9906366, 559708, 14555247, 14241865,
      10743960, 14365326, 15372001, 7836144, 10932226, 13510703, 9862340,
      11177414, 951838, 3908534, 15244990, 9638075, 3845348, 15021018
    >>,
    \* random.seed(46)
    <<
      14902665, 1281498, 6710792, 670446, 9875407, 9846584, 14424826,
      14891241, 3834251, 10645590, 8652300, 2549592, 9793372, 9026581,
      15891370, 13462082, 539914, 509868, 1156682, 13139181, 5370121,
      10605905, 13842747, 913658, 14145702, 517895, 2271487, 9205088,
      15427321, 4954678, 8854500, 5530692, 16238610, 11966614, 15678632,
      12793609, 1558963, 6676782, 16347113, 11831638, 8031997, 6046147,
      2619110, 7897428, 7811614, 13935680, 1246878, 7710559, 12564029,
      11684694, 9133894, 10390661, 1835122, 7258893, 3797672, 5647677,
      8498872, 7448338, 13060986, 12018363, 4614903, 2572257, 1789605,
      9978093, 5951523, 14707949, 1158156, 10219613, 5630172, 7724064,
      14627114, 6811812, 3082722, 6440122, 5062255, 5983298, 12971976,
      13022529, 3416708, 13909186, 1926794, 9785931, 4163412, 16677931,
      10238825, 12023345, 11940873, 11831024, 11353699, 5270586, 1083629,
      12687306, 4763630, 13618555, 1942622, 6188699, 9396939, 3069815,
      6137963, 8888619, 12603444, 11107500, 9539623, 10695819, 9769144,
      13962935, 2878329, 12080189, 9103470, 3178867, 1104241, 6615310,
      1689253, 12439272, 14399181, 5657356, 2923054, 9594420, 16931,
      11292074, 12010248, 14887961, 3112102, 14549811, 5047304, 6780768,
      9640907, 11091218, 15770282, 16063628, 388718, 8674402, 10895605,
      12226308, 587803, 3314931, 13000598, 3936688, 6133487, 15743751,
      1439352, 1271079, 6576125, 7393516, 10914836, 2984622, 2277689,
      12756061, 6393345, 9096209, 13095714, 14294891, 13754357, 4693411,
      12211384, 11101291, 7901772, 6330056, 11827094, 16589771, 2498986,
      13254858, 6432462, 11040652, 5228188, 6372029, 2214264, 6385039,
      687912, 1827612, 886556, 3341808, 16371689, 2030202, 6335556, 13861321,
      5357647, 4648119, 11009155, 10299631, 12161656, 13996188, 15059556,
      8568065, 15299935, 5284273, 956380, 6801222, 4149532, 4567682, 6529733,
      8312586, 5139477, 4929236, 9327855, 784929, 4047795, 52104, 15079642,
      10352765, 5507678, 15308355, 14997287, 16631628, 15529241, 14428689,
      11089783, 6554959, 4568100, 12577337, 951485, 10206354, 16687996,
      12572526, 15482615, 8809074, 8216902, 15670963, 1026154, 11924485,
      12779097, 5567153, 4926526, 10729802, 7328107, 9189990, 16439656,
      15688093, 15398751, 228799, 14229635, 13729618, 1254285, 2427835,
      10948753, 13631300, 10150613, 10041810, 12023196, 3472838, 268515,
      6252580, 15311752, 4956687, 2830634, 11330853, 23602, 309182
    >>,
    \* random.seed(47)
    <<
      5903000, 1048998, 7217327, 9288539, 7611334, 9576276, 5762466, 4318923,
      8597389, 6485351, 6583637, 10327405, 686334, 13339274, 7021811,
      11049924, 396946, 16061941, 1718923, 10511, 4425940, 15815033,
      16199628, 13291659, 8079114, 12144314, 9171898, 153272, 15391481,
      13685363, 15078327, 5294512, 9522214, 7175605, 3859547, 3988646,
      8779007, 8622696, 6024398, 7419237, 16068607, 4060905, 558079, 9411106,
      6277484, 12024771, 11536036, 5929950, 10082697, 5736361, 9358170,
      9648628, 12782532, 3288054, 4003365, 13230667, 14103328, 12233088,
      15350378, 15695650, 591882, 2105533, 5602383, 1643279, 6087422,
      9703137, 6435382, 8527955, 9061849, 13639638, 4241859, 1629045,
      10885199, 14628812, 14782601, 3807719, 15552712, 11730768, 14187243,
      5618000, 3666726, 7902575, 12485251, 1847938, 12970041, 6990399,
      10144430, 5923179, 11322181, 14635622, 4803624, 14749684, 12967712,
      13588906, 4009468, 13574670, 9315818, 15468727, 4388746, 5988514,
      8936961, 9485564, 672930, 8119267, 5237958, 9441179, 13080596, 6635017,
      4366165, 15848305, 12250908, 8714070, 13415307, 3706708, 10172778,
      1911523, 10526145, 14116895, 3474331, 6373115, 8143640, 4246962,
      16145445, 10125386, 16531705, 15531715, 9362408, 2503198, 7447177,
      254849, 16460588, 2857086, 9177013, 10521946, 13494453, 12775348,
      1388749, 1251660, 4458543, 8577097, 13634109, 10444046, 9174864,
      7994513, 13125418, 13453157, 7308372, 6133391, 15409536, 12736904,
      556695, 10197033, 4446187, 15085961, 10809422, 10211190, 8673257,
      15830882, 11309693, 15258788, 7915658, 15341456, 11881386, 10709300,
      13396203, 15968067, 5284706, 13917194, 373014, 9679124, 4077191,
      3546111, 5804318, 7241674, 16673148, 16501755, 16075060, 14542746,
      11606289, 3087276, 2964155, 7881817, 15451226, 3333237, 2145408,
      1651175, 2292772, 12254405, 13171848, 9556658, 5772285, 8848322,
      6582719, 1813367, 4477254, 7447752, 7581, 10949236, 2053125, 6946942,
      1126833, 6194963, 347650, 4433342, 699697, 2356165, 3039682, 12400798,
      8584197, 14018568, 8237332, 3374710, 13137963, 12966661, 13617889,
      8299601, 8862981, 7609994, 9455731, 9518335, 167559, 11660753, 1238920,
      2938064, 14021942, 2526098, 15466193, 9117482, 5676447, 10662338,
      14547351, 783256, 14722679, 10436238, 3934278, 11949453, 1027355,
      6354020, 2066080, 372689, 1486272, 5078938, 904158, 14751361, 9191493,
      5161770, 4011733, 10278589
    >>,
    \* random.seed(48)
    <<
      9196562, 5292433, 2212771, 9343319, 11937775, 8972264, 5070914,
      13307053, 15742485, 8477738, 3233277, 11976710, 12783987, 7312477,
      2779004, 2594459, 16208252, 13536026, 14656716, 11028751, 1803878,
      8272514, 10893722, 3697696, 3658260, 12788646, 8583230, 9337589,
      14265839, 8532648, 2599052, 7915294, 3642409, 468922, 1230079, 7109804,
      1065439, 2222361, 8369920, 11278721, 2735269, 15949515, 2161543,
      949590, 11712931, 9196226, 4894795, 15710279, 5688946, 11722199,
      5666524, 1591225, 14120078, 4002733, 4561978, 4446197, 10872590,
      243746, 15699749, 14792798, 9582137, 15078405, 4746456, 10592079,
      2318345, 5912066, 10952029, 7339965, 2946357, 3354706, 6740263,
      13337699, 13676466, 14213108, 13128505, 10201949, 4651557, 446386,
      6146303, 1636477, 4848915, 9606641, 4888491, 9895018, 8337473,
      11691036, 1953612, 13063802, 1931076, 3787535, 2464651, 16539622,
      5535898, 7914002, 8975417, 11125937, 5356450, 13120569, 7220668,
      1863738, 12982285, 172313, 13112767, 6165341, 7085085, 7043576,
      14871892, 5310340, 12644, 13419127, 9768875, 15334312, 11470234,
      10721837, 6802664, 7883404, 7177837, 10144180, 4341129, 2601734,
      12854253, 6186655, 3234127, 7829716, 9466852, 15532400, 12003101,
      3740242, 13905420, 10621039, 15569291, 9583744, 2760369, 3743636,
      2603029, 2663316, 4648875, 15704896, 13870342, 10955764, 9745563,
      13606749, 12298469, 11653476, 7294129, 9547927, 8854454, 9221814,
      16427870, 15394274, 6572449, 9669967, 7206349, 12870679, 10998173,
      12019676, 14493509, 208156, 15156150, 7624654, 8883332, 4917091,
      694348, 10673140, 1586807, 452542, 464161, 12439916, 48686, 11438238,
      10784630, 5634901, 6169517, 15055403, 1526894, 10874693, 13548382,
      14428848, 10080899, 7523880, 8558733, 14486035, 14101508, 7363783,
      1620177, 15559237, 7557494, 15306057, 9808452, 1444760, 8099103,
      2679482, 3636791, 16749849, 13047969, 1212250, 14384745, 14874906,
      16693319, 11426965, 10125574, 11882324, 3317909, 14317577, 4071868,
      5915117, 535889, 6623607, 16521284, 9030451, 7139992, 607299, 4564666,
      10310938, 334814, 12567649, 5272237, 15129462, 16330797, 6663767,
      11175286, 7079791, 1444672, 11618571, 3870694, 15994105, 15755624,
      7783514, 5340766, 14494009, 12893750, 2090633, 10932915, 807647,
      1172167, 3224722, 14646247, 2200120, 14115163, 3523606, 15571093,
      9781796, 1777058, 2275008, 3986678, 4418197, 5399474, 3256447
    >>,
    \* random.seed(49)
    <<
      1122126, 5776896, 6933063, 15658545, 1853961, 5427349, 12618336,
      9300538, 8577940, 13551634, 833391, 11406181, 751744, 12722989,
      12346930, 4629295, 2589559, 7630629, 12310196, 761621, 10577090,
      9162010, 8460400, 3677048, 14357911, 14956522, 10109232, 4797546,
      9619328, 6227509, 6712216, 511144, 4173261, 12188144, 2315054, 1605854,
      7100885, 12229742, 6309253, 5478549, 12959714, 6012349, 4502557,
      10995187, 6686722, 16137404, 15873218, 10317122, 10406685, 877835,
      11094068, 6926545, 11541064, 9131409, 15269190, 10302909, 3460444,
      10900008, 12924376, 15254068, 1099964, 9449416, 4278526, 9070984,
      9994943, 8938395, 5342599, 2275374, 8179855, 15728970, 3728030,
      5472438, 4281171, 9773708, 7334406, 16108726, 10268315, 8215988,
      11626942, 11780606, 8386668, 12810969, 6359499, 4520300, 16208523,
      15416747, 13031223, 11582882, 9193890, 373384, 9098112, 15316439,
      2495309, 195357, 3344224, 15529984, 1422122, 14323320, 15802619,
      15816562, 13901210, 5091898, 1055656, 900139, 11627094, 11785127,
      6278446, 11651919, 11139271, 976755, 7334300, 14331815, 5500373,
      14144264, 1242131, 7977153, 3236696, 12772924, 7154178, 4996703,
      12031370, 8080015, 2657577, 4383261, 7377710, 5730145, 16216852,
      1746462, 1724820, 11993304, 6832039, 8288707, 14344442, 7656470,
      10921015, 1520979, 15935581, 11302536, 10135025, 1197518, 10852113,
      15561411, 3885635, 4089925, 6829203, 5691447, 8804513, 9463044,
      14618081, 157565, 11218571, 2998124, 6240984, 6040442, 14772616,
      1722145, 10301854, 14271316, 12141390, 1951202, 2921450, 9961212,
      4408731, 12703763, 10012167, 16545795, 7191892, 1363006, 4294683,
      13074180, 15424434, 6040095, 16124621, 11877926, 11346941, 11302629,
      16357589, 8680269, 12107880, 2253549, 7646974, 11156677, 2049184,
      12849351, 9491854, 7768939, 15215331, 14328138, 9585845, 2175138,
      12413308, 11084254, 6322810, 10263887, 447640, 4289376, 8580366,
      1862866, 5766236, 10065922, 9493988, 5255933, 16324840, 7108778,
      15932336, 15818795, 15344478, 12125441, 10883386, 8702356, 8840791,
      14366023, 9039806, 12243381, 15410999, 3982318, 140692, 3798935,
      560318, 5402639, 1305870, 8175770, 7556087, 4353575, 16567995,
      13619767, 15118954, 13610075, 9388447, 517810, 15977569, 6934729,
      12134769, 11559442, 13701670, 8650882, 4337957, 14851426, 1959662,
      7357720, 3680439, 14235595, 14359047, 503414, 14790627, 8016984,
      9936306, 16090625
    >>,
    \* random.seed(50)
    <<
      8347278, 14356186, 4465654, 6108543, 10693984, 14945368, 4068135,
      11618945, 7938451, 12866489, 16279539, 5537299, 1429218, 9034401,
      5324734, 3764688, 11348846, 9339811, 1430111, 15607595, 2572241,
      5824687, 13845797, 1652729, 16437021, 5830384, 5357613, 3730988,
      3170373, 1153242, 16313749, 14499923, 5518348, 16578033, 10129823,
      14985100, 10192061, 7195197, 10653343, 1492446, 15357731, 15556674,
      16147285, 1073825, 11629089, 10132077, 13839587, 5607936, 13318233,
      11585998, 10789823, 13972178, 7219104, 96063, 3812137, 5661458,
      4465762, 13401042, 15603099, 7288275, 11745156, 16511879, 1774948,
      3373438, 15280894, 7427462, 4548065, 15203528, 11617581, 9750643,
      7717388, 2124345, 4524204, 10453496, 3510699, 8960945, 9715274,
      2060608, 6908281, 11447817, 10476396, 14931631, 11676642, 16183047,
      13747929, 1971940, 14314069, 16593119, 10493542, 13212471, 16213573,
      9123495, 8323259, 7162483, 14890621, 8682619, 13673032, 8922496,
      13716314, 11308296, 2098983, 8378512, 9570329, 13867389, 8666962,
      5041720, 1563044, 14386640, 6169647, 12720063, 8669301, 2520533,
      113139, 6012905, 151292, 15178215, 9848415, 11424068, 6894597, 7930928,
      16413951, 13266044, 14265042, 10973040, 13904995, 9034899, 13469025,
      16311478, 3761185, 2722494, 12177328, 9612220, 1642820, 14063715,
      2296078, 4297334, 6309497, 13593081, 4123005, 5636109, 562099,
      10616476, 8688444, 791066, 16203346, 14332109, 1321062, 10871437,
      3978211, 11446777, 15541000, 4396996, 8863979, 7066381, 7802535,
      9689566, 7017340, 12887231, 13773647, 6556159, 7888361, 1493894,
      6762790, 2032584, 6082149, 865695, 13005775, 13067062, 321815, 1133074,
      7441524, 11205676, 10727665, 9506555, 148237, 5158086, 5315385,
      14349660, 5818214, 9051487, 10820285, 11473730, 8715241, 14949528,
      8351953, 1490152, 5058233, 2683764, 7210008, 3293763, 15543867,
      16581764, 1884028, 11058173, 1474888, 188349, 2678468, 2217694, 841591,
      16477477, 2399894, 492947, 5217395, 11511527, 12376908, 14168409,
      16079313, 5964164, 265515, 3001094, 8391279, 886088, 4043217, 9715915,
      15087633, 11870832, 16707169, 5166826, 11702150, 9883039, 445961,
      2495533, 8288940, 6780574, 7249546, 5836721, 9056758, 2569631, 3751691,
      14346984, 449432, 8765676, 10150217, 4750843, 13867053, 10902940,
      5626715, 15198190, 6342597, 5470038, 745723, 2438803, 8945545,
      13995770, 13689498, 16317962, 8058996, 4774265
    >>,
    \* random.seed(51)
    <<
      4085550, 14067533, 8425668, 9265879, 2716860, 4128529, 13777822,
      16670023, 3882239, 13968693, 9266536, 4292243, 15541698, 14550327,
      6666909, 9198775, 16238128, 7778269, 12272062, 11675911, 9195845,
      8782990, 10551583, 5744755, 9832528, 11083741, 6043507, 6488920,
      16722152, 4658968, 6776215, 11697586, 16506183, 127557, 14303806,
      1910805, 475543, 9041792, 4331913, 546804, 8015551, 11340927, 13666659,
      15828556, 2980162, 5826290, 10332090, 5027928, 6160751, 7533715,
      13181504, 13310789, 15542835, 14361658, 12786213, 10883131, 3242879,
      12822481, 12755515, 494485, 7351143, 16045049, 14046258, 2818252,
      7887339, 214971, 15210952, 1016747, 16545127, 1782486, 13828080,
      13235219, 13859333, 12349333, 13741176, 13303711, 9934246, 1805916,
      2933663, 9214954, 16545750, 15866749, 7787585, 15635572, 271760,
      11465469, 7289009, 15639058, 6962151, 15293874, 3370025, 16405277,
      16112203, 6204483, 1879460, 8134082, 15169012, 16280255, 9223457,
      13048739, 2996609, 9888822, 6010786, 16607100, 7555099, 8309275,
      1973238, 8705331, 12801300, 7380743, 10931967, 173346, 16480295,
      7282661, 13923468, 9053726, 13186356, 685621, 16725332, 7958949,
      15634569, 8598257, 10804197, 14233587, 9047359, 1671575, 8786805,
      13570029, 13654184, 5150536, 15524426, 8916262, 13933598, 7718982,
      14078632, 11501688, 459307, 5495631, 7056990, 8866898, 1463393,
      14752783, 9818463, 14480041, 9732297, 6856298, 9407525, 15012594,
      14394429, 4668914, 3773391, 15198228, 12227988, 7870140, 9838553,
      8123903, 3575151, 13603823, 16416059, 9065959, 898611, 5413192,
      7799542, 5162492, 8985400, 11182573, 9991664, 7438084, 16475774,
      3404331, 9252275, 5911941, 14875095, 11989679, 4940401, 4240640,
      8076975, 13075857, 2464329, 9226988, 10732053, 14836320, 7084842,
      14848313, 13167650, 2995065, 1886440, 5001330, 7789763, 14728218,
      16084165, 12370229, 188905, 11227386, 11078300, 2630473, 11366373,
      7068311, 12178110, 1297600, 9351341, 8504531, 8401123, 12643981,
      16097291, 15903956, 4752306, 9711289, 11806521, 9950837, 11214945,
      7340522, 12219264, 7490206, 8017595, 6399385, 281975, 10733176,
      13010175, 11539486, 4685290, 2344489, 13125009, 11514724, 16561083,
      16340391, 13027836, 6721162, 6759310, 15171037, 14380841, 10734880,
      6474319, 5323277, 5368606, 6736271, 9581153, 16533031, 10962758,
      16345388, 11507544, 5529718, 9271538, 7678471, 6857387, 8577885,
      12459162, 9934544
    >>,
    \* random.seed(52)
    <<
      16414070, 4501611, 914738, 14764477, 12174583, 8599789, 8117852,
      14346630, 15799494, 6224719, 6825885, 571330, 15422338, 2353349,
      2670056, 16481925, 16689641, 13400459, 6928646, 13934483, 3072721,
      16194296, 5806579, 7374723, 10582998, 18974, 573683, 9129077, 6495869,
      7347411, 186279, 3980313, 1163809, 2667633, 2857058, 8084226, 3869271,
      10487103, 4603048, 8196681, 13055028, 8373431, 6979335, 2060581,
      14385421, 564916, 15074293, 10381407, 15019113, 6345326, 15899367,
      1527874, 9661432, 6627273, 11260472, 14972800, 14789190, 6140223,
      9121846, 2207937, 2387164, 6660701, 8731533, 11237903, 8893671,
      11803758, 3014036, 4697834, 1555439, 5404817, 3095693, 13210681,
      11700451, 7102625, 13629491, 9438299, 11015316, 12006495, 7158203,
      10046946, 477401, 3386718, 71899, 3428374, 10986909, 12091907, 8885538,
      8084629, 7661915, 2244086, 2878189, 12134586, 2068660, 12785853,
      3020251, 1462597, 2156665, 10581303, 10056364, 3658642, 5152118,
      3357130, 9308849, 9557996, 7201565, 1216971, 9191997, 2836883,
      12487663, 11946246, 13094630, 3579490, 2511906, 8443408, 16101779,
      13958951, 14312501, 3877994, 13756258, 9453430, 7600433, 10022894,
      15971076, 2576082, 13630894, 15147035, 4009935, 8835223, 11524552,
      13852115, 14246756, 11291038, 12631480, 15472723, 15093381, 6550599,
      8876273, 15408697, 11260713, 3377794, 1276046, 11254336, 11140301,
      13759887, 2453757, 708341, 12149051, 10436799, 15138783, 67703,
      6233947, 4393719, 1176023, 6808474, 726860, 2161530, 8668873, 15486488,
      2615998, 1779625, 12399578, 12337026, 10228798, 6301844, 8391777,
      14221753, 11259870, 88871, 2530369, 5046078, 7689200, 16541915, 775001,
      3122044, 9184605, 2566330, 13312004, 2526273, 2585734, 1494049,
      11551899, 12430447, 16677817, 4139782, 5428784, 10862332, 3494854,
      6132316, 4234634, 3257265, 13980897, 2304036, 1351727, 12683414,
      13018133, 15759294, 4388314, 1038814, 12681997, 1524270, 14882502,
      11472973, 14218713, 13141772, 3223248, 3838184, 9194152, 5469393,
      5314828, 6080637, 14683704, 6156893, 4949404, 155823, 2832365,
      11414538, 6811231, 4335137, 1448011, 8113461, 3737600, 13716283,
      11793536, 805648, 5482818, 12533455, 3098355, 12026554, 15688465,
      5017951, 4378632, 6121487, 13346064, 7237154, 11477431, 11372743,
      9332091, 7985569, 10881547, 90416, 9745698, 16272007, 14115074,
      10060860, 11640896, 8072478, 4497203, 16536844
    >>,
    \* random.seed(53)
    <<
      10353915, 14314421, 14934046, 3624774, 7658584, 8423231, 11935391,
      8098292, 15719937, 12044449, 8733544, 6051637, 12311795, 7627628,
      12214357, 523712, 14397982, 15587464, 617274, 15289381, 2840251,
      16400486, 16726479, 5767370, 12529259, 2220715, 4378820, 14778627,
      12456124, 940831, 2839326, 786534, 6043776, 3843830, 7397348, 3325345,
      3838875, 2122825, 2318585, 5892176, 8515110, 12840457, 10855344,
      14293567, 5339509, 8582659, 11077506, 6765168, 16474747, 15792117,
      924180, 5574868, 4669540, 2570617, 1518496, 13179591, 11362856,
      9278385, 6922177, 6494432, 7372336, 16599903, 4146160, 11022685,
      13036224, 2605005, 12732348, 868951, 7506079, 10844557, 13840048,
      8053071, 3877991, 15304340, 5774975, 9935298, 16068310, 14072661,
      3827095, 14989234, 2416195, 1331966, 539117, 12626773, 11279642,
      1602208, 13768680, 15557288, 867774, 12967706, 8022736, 15398015,
      6650539, 9198340, 5500657, 4311217, 3940874, 940108, 6448450, 6995924,
      2370262, 13763475, 15465197, 3121017, 3341305, 16460697, 8978730,
      5524873, 10751015, 6130170, 11029829, 3204497, 7957599, 3719358,
      8776240, 8054873, 15709805, 5896240, 2911478, 8139879, 3365360,
      10120851, 5068858, 1620169, 12418866, 10946570, 7105903, 1107609,
      6540580, 6336745, 1299626, 4975218, 2117763, 15481128, 10931585,
      6707500, 3840368, 13699511, 7725970, 10031654, 3987780, 15555674,
      5219373, 3938985, 3210693, 12878279, 15232995, 14521509, 10468601,
      7872925, 8164951, 7148340, 3841182, 3006710, 14035835, 3643757,
      9419464, 5571774, 2244939, 12761680, 3030279, 4695470, 15939292,
      7370409, 5400547, 12527133, 6892921, 14963374, 1616118, 15934064,
      14656548, 193452, 4119940, 15077419, 9459408, 1363865, 12133828,
      10591645, 9025798, 13062297, 6306432, 6031422, 4367053, 3183675,
      11637746, 13299117, 4316510, 9559811, 10337711, 7930948, 16060770,
      13630874, 15483252, 14609934, 11263469, 5605066, 9995538, 16273853,
      2653757, 3046921, 13642586, 9291704, 15269253, 12473477, 5809991,
      1492981, 1042913, 10783215, 8929486, 6353676, 7241349, 13012730,
      14254189, 340346, 12639687, 11160134, 7238360, 15953432, 8924826,
      7754350, 8054312, 2451384, 11096112, 11422959, 10731536, 6706156,
      11064451, 14243205, 3655969, 10126163, 13487780, 6170613, 894889,
      4153642, 4407251, 6949830, 9326001, 12693759, 423438, 8431061,
      10109356, 16573871, 5392674, 364612, 5650891, 4409676, 1348155, 14461530
    >>,
    \* random.seed(54)
    <<
      15328385, 16433012, 2306498, 7364152, 9329308, 4998365, 8103772,
      14928989, 16089021, 8179456, 6381881, 3674236, 7491033, 5537681,
      9686950, 12269074, 6410524, 14702009, 15299223, 16412869, 14739738,
      3503069, 12142325, 3356098, 939642, 8315871, 16605324, 13415933,
      9208995, 7597476, 10027550, 1526314, 9095206, 5706058, 8652918,
      4920267, 15614734, 6959436, 4582696, 9126043, 2389318, 1623314,
      16771643, 10830582, 4381434, 15870527, 4664831, 16512504, 7344420,
      9842541, 15059605, 621899, 6307936, 11361626, 211995, 6076184, 4459460,
      6976, 3846608, 12213028, 345130, 2853572, 14972492, 15213931, 12308038,
      14794941, 2288964, 6357599, 4072685, 15829019, 16452402, 434196,
      11751578, 3490192, 7497220, 6383223, 9716163, 2967445, 16490112,
      7368264, 4011389, 4102288, 10598705, 10015156, 268972, 10852437,
      8136737, 9344561, 3946566, 13643309, 5704597, 16214104, 6598721,
      7034360, 7165200, 6514510, 15004599, 15740182, 6115825, 9248218,
      318290, 14246179, 14047273, 7952890, 15483980, 16375636, 14139916,
      7734757, 4948888, 3622565, 5952129, 8119874, 12852720, 4820649,
      1362729, 14940336, 982106, 11006114, 8484331, 7510873, 3857318,
      8460835, 7768694, 15222509, 2685118, 15595964, 16130019, 13042771,
      8327466, 9920359, 5809435, 8424524, 5113367, 5352053, 4597731,
      12914113, 13122913, 15189328, 13373523, 15354374, 13259877, 739754,
      15621637, 1631315, 10143842, 5358645, 6446471, 6725521, 7065557,
      6710003, 2230152, 7212858, 6138815, 5319679, 8135702, 7320335,
      14525340, 12511268, 9694065, 13216317, 1641426, 2362523, 9000535,
      9357827, 5696510, 7744649, 13521440, 15722059, 14052017, 4213561,
      9987642, 15491955, 11040576, 2215183, 7044344, 5755928, 4678730,
      11919130, 13457248, 2113136, 12968873, 8486532, 9342540, 11799079,
      15602091, 13991493, 13738599, 4926054, 11729355, 4825054, 1774457,
      7820125, 16117357, 13267591, 1585298, 16640091, 3378057, 9938965,
      2063182, 2556468, 2984633, 15000903, 11731770, 4115864, 9368504,
      4599500, 2153652, 3192397, 3379438, 10558399, 12475119, 5582997,
      5325333, 5364668, 3626905, 2995232, 13490557, 7170973, 4359940,
      9805859, 1445182, 16087201, 8722273, 13888794, 12348871, 635017, 71147,
      340669, 10537166, 13298240, 3096482, 5036351, 14591474, 7746252,
      7875515, 14922962, 5716346, 7467188, 5634670, 13775524, 1290521,
      3816752, 602061, 14956478, 8447433, 6447587, 8298328, 14817142
    >>,
    \* random.seed(55)
    <<
      1515651, 16573929, 15948984, 3292474, 2516096, 16758572, 12404576,
      5078263, 14113705, 1336533, 12534878, 3083137, 5065672, 1484939,
      5899270, 15367628, 12110844, 15474184, 16200858, 14537920, 11117049,
      7918214, 9069447, 6464927, 6507901, 8447378, 6807183, 5339113,
      12064426, 15977868, 7195600, 16601270, 8962333, 12968230, 10585561,
      680605, 10611901, 4315878, 688298, 16054620, 3869020, 8606024,
      11840676, 244072, 9568856, 7793359, 14057739, 3753673, 880573, 6352651,
      3887781, 1486162, 8421669, 10809429, 12532468, 7184277, 3273051,
      3802420, 12828229, 3443649, 6885374, 2853647, 5128186, 5541403,
      13915931, 139508, 1797317, 13856248, 15666324, 6881400, 5209737,
      5448885, 6078272, 10386316, 3407074, 4034490, 7851507, 2939004,
      14131032, 2753087, 3708885, 5185389, 9294986, 2718796, 7385731,
      3512462, 5062341, 10675798, 2184183, 13879479, 11708584, 12053365,
      6964455, 13852876, 7879933, 9829077, 10111270, 12434376, 1794563,
      6700725, 13719117, 11032249, 14945611, 1323065, 4266585, 940600,
      13690892, 11759270, 11724617, 4373079, 5003817, 5270016, 4527256,
      2105507, 1407755, 10062062, 6948312, 13260289, 7569769, 8334518,
      8167770, 1150464, 8078739, 4398494, 9205017, 5961049, 2093659, 4717738,
      3767765, 6581341, 9380919, 7098103, 7925446, 9901692, 2925724,
      10663513, 4643793, 958329, 16426710, 3995674, 13405229, 10685266,
      12195770, 16708682, 5960706, 13981740, 7022882, 5418294, 11826381,
      5927135, 9425386, 15127744, 10745380, 65232, 596404, 5956206, 11955065,
      11203669, 3356248, 8202583, 5493885, 7865252, 8905691, 4889712,
      15924766, 8879752, 6804412, 4491317, 10840118, 8222563, 3499839,
      11054304, 15762253, 14412563, 4156161, 3086663, 9073893, 3501600,
      11420911, 16637941, 11728643, 5806170, 7473314, 9745675, 10856769,
      8198636, 171842, 11789780, 16529446, 807772, 9367587, 1652151, 9984258,
      8468546, 4267841, 3051370, 8054621, 3544262, 10779348, 11220968,
      6919844, 15948751, 2038504, 7091249, 3295061, 4728867, 14658867,
      14492013, 3450416, 13322101, 8627528, 471539, 11929986, 10489866,
      3712022, 7884241, 13551933, 9497586, 7983624, 10289184, 15889253,
      12916765, 3436208, 13152789, 7136098, 437923, 6082699, 7356409,
      4581629, 1564692, 7151069, 5949276, 7165322, 9212870, 6615500,
      16668043, 14564665, 13849544, 5459055, 1280327, 943421, 14059142,
      12585155, 2287963, 7290630, 2471275, 420699, 1520019
    >>,
    \* random.seed(56)
    <<
      16205434, 14232327, 9391145, 192877, 7946895, 10957243, 8779172,
      5052309, 12879198, 9105439, 16586056, 15619051, 7055919, 11867126,
      3874466, 1585587, 6286213, 10371945, 1135775, 5659917, 10791439,
      4285571, 16653013, 9626732, 3476521, 375752, 12734687, 9608750,
      3538486, 913177, 15597083, 9764358, 9344665, 2295504, 6453380,
      11406975, 509113, 15567737, 2611068, 6466472, 15131827, 4138417,
      3129973, 1576948, 10316520, 3287889, 9372818, 3669879, 7451254,
      3098647, 11971575, 6459187, 2108419, 14957816, 11252739, 16489237,
      1063163, 13087492, 3598896, 8813762, 11327164, 3027756, 3188999,
      2947385, 2266057, 9220766, 8335521, 12343492, 10737790, 6059062, 88044,
      11033476, 11318373, 584362, 9787185, 6192534, 13016, 14651061, 9528142,
      11316597, 16229, 8828763, 9302251, 1654650, 10235422, 8358443, 6460993,
      11368431, 6032431, 7992353, 13305409, 6236347, 3251602, 8618596,
      7795484, 9225709, 8375507, 11505254, 739178, 11448152, 15081594,
      3555197, 3031288, 5764257, 13271039, 11703105, 7844026, 2394529,
      161709, 3205354, 5076772, 2367878, 9777298, 4220901, 7735977, 163211,
      15295685, 2183711, 500608, 10145113, 13913882, 4915037, 14476428,
      8525063, 2731755, 12947284, 8536891, 1509520, 827659, 15527315,
      9717407, 14323146, 11644995, 14069929, 4849302, 10131309, 13188694,
      6666486, 4084931, 12022365, 956269, 8601969, 8102855, 10700956,
      12503140, 9032523, 5051746, 10242883, 3637462, 951176, 10984815,
      11663580, 11223230, 6900311, 2229178, 15662096, 2759849, 11164434,
      10425071, 9124854, 13262348, 9569093, 2407908, 8771768, 10729259,
      12019940, 11070353, 352659, 691980, 648391, 11434128, 11544261,
      8157337, 4385346, 1792470, 8551412, 2257586, 762366, 4301706, 13523353,
      11834577, 16037523, 2503220, 12904175, 9757460, 15576481, 14555963,
      15981309, 9505720, 13554429, 11613065, 14906587, 1932366, 16537219,
      16097824, 6792041, 15899621, 12110230, 14417786, 15861397, 3899178,
      3477603, 9912460, 1843553, 12607311, 5271679, 2244833, 9025374,
      2208211, 16170298, 15093581, 12377308, 9396307, 1876444, 15453865,
      3893233, 7051682, 12552539, 15747659, 6690107, 12005917, 1817302,
      3247192, 13073516, 3988931, 15726121, 15694486, 4828396, 1752138,
      14394156, 16192962, 10132419, 10780795, 1348100, 15761076, 15965036,
      3216354, 1998630, 758194, 10909569, 15663333, 7192864, 9000329,
      13639055, 4770358, 15114263, 10156285, 12995891
    >>,
    \* random.seed(57)
    <<
      714134, 6169858, 9893296, 10155159, 323981, 3772457, 8625605, 5389176,
      16385403, 8008767, 4869533, 16511047, 16344696, 7332282, 10670832,
      13982395, 14830842, 6341350, 330018, 14529513, 12342058, 2773917,
      8668857, 15307209, 10139236, 6255018, 6341445, 6680449, 16390893,
      1825860, 10993717, 14797712, 12173179, 9814639, 11462817, 8149892,
      9166440, 4264377, 13646873, 10864696, 10339271, 2338332, 9483667,
      2391082, 2339142, 6380882, 9333363, 16664706, 2591290, 13639888,
      9836224, 15673963, 7155033, 8572264, 12791835, 2966220, 9889720,
      7225051, 6124662, 9657183, 8692884, 8647581, 3686640, 3982075,
      16469115, 15117470, 14350959, 4675369, 6632418, 11234772, 3651412,
      6965978, 7485980, 215374, 10708982, 7677411, 7477772, 336115, 15791175,
      6515452, 851097, 10357311, 5727435, 7359280, 8668008, 12763824, 764734,
      11901023, 7823013, 9180282, 9603099, 389894, 5098387, 6433, 16674649,
      5024442, 5859596, 6132280, 6171100, 10815845, 9979281, 11857078,
      4439198, 310337, 7904783, 11320393, 2624277, 2311911, 937827, 11206054,
      11490574, 7328324, 4669811, 11803019, 2699131, 33639, 4328133,
      11869550, 6985024, 4138740, 2463654, 9468456, 11660909, 613420,
      12116503, 1928571, 16276754, 12665007, 715349, 4563894, 5288333,
      3470734, 11290040, 2614783, 14181462, 9661168, 4151247, 11245444,
      14541940, 14173981, 704694, 9636982, 9183777, 3011036, 404117, 1800579,
      2663883, 12817247, 11995665, 16272341, 7495926, 9015652, 15275880,
      3014145, 15748670, 1341630, 7490452, 2868114, 8941073, 9352298,
      6349080, 14267098, 2793015, 10113125, 7021489, 8399415, 13370088,
      14190083, 6909068, 3972757, 13491523, 6726174, 2269076, 12006528,
      1812718, 13536713, 16446795, 920823, 3907880, 14967235, 2397095,
      508457, 14863941, 449605, 12668750, 13934893, 14784816, 7459540,
      14501584, 14685334, 2036213, 352354, 9638110, 14236467, 10789011,
      12542547, 4445725, 10715974, 10145703, 3179725, 5936158, 11624538,
      5361255, 8058953, 6631195, 6400530, 9298571, 6612364, 3082979, 6425733,
      12374982, 5760102, 6190581, 12449186, 6669990, 3427630, 6985222,
      11431618, 9496015, 39410, 16169137, 11651510, 14867543, 8124409,
      8703555, 7325462, 2049013, 7280579, 1249456, 11059431, 14229844,
      6732204, 159397, 1375930, 4530679, 11875415, 8538786, 776172, 99862,
      15662749, 10725373, 12290737, 14911434, 1297766, 11129381, 576220,
      11781132, 2987763
    >>,
    \* random.seed(58)
    <<
      9743488, 3307744, 3451475, 12386868, 10770458, 16483102, 15879390,
      3375071, 691329, 3228107, 7539674, 6801477, 5929832, 15827416, 4830485,
      13512546, 14712350, 4367017, 16219053, 7550958, 13487114, 10323566,
      7030166, 4763482, 14627001, 9730904, 1755053, 208531, 8214928, 3581649,
      7884628, 12650216, 1232135, 7588407, 9286712, 11068539, 6319132,
      11071791, 6171209, 1037601, 1696970, 13140738, 11197782, 13047958,
      2259751, 5064689, 581404, 3094327, 14564541, 4925256, 5205562, 2889160,
      10267440, 10153368, 12178382, 4075862, 12771443, 11405801, 15324408,
      1268909, 2663077, 3379235, 7521389, 2101090, 2182530, 2201371,
      12062523, 14762642, 3815002, 511165, 4419851, 13922294, 4203937,
      11279309, 12059909, 1669091, 8028984, 8403848, 13920219, 11244692,
      9888483, 4516336, 9848017, 15892939, 11249666, 16325855, 5586588,
      9798888, 6709731, 2152025, 4789020, 4316198, 3439149, 7761484,
      15164758, 3333594, 10231557, 3821143, 7623199, 10457121, 10400863,
      1542331, 2971470, 15526535, 14763734, 1472706, 8263817, 12100636,
      5004123, 5380461, 11658244, 7499217, 8156658, 4303817, 11815955,
      8201196, 2124901, 13033359, 16031124, 11666526, 14794502, 1056420,
      2151303, 745598, 8688644, 3924058, 572802, 4811948, 984243, 632457,
      3469281, 9653053, 1157690, 2081831, 16009241, 807995, 8227641, 922453,
      9279232, 15684677, 12039417, 14304664, 4687947, 11161645, 8136146,
      13883187, 11800384, 16532183, 10045955, 5564780, 5287947, 8542553,
      1007465, 13881846, 14993244, 5767852, 16541904, 1193333, 16454398,
      13579041, 2183484, 2465389, 3410669, 11084443, 3437488, 11135787,
      14039658, 6254004, 6926372, 1735733, 12482323, 15560201, 12753761,
      15944396, 8172853, 2533254, 3408633, 12896341, 16691681, 12210046,
      9602910, 3627359, 12720958, 433869, 737939, 2419407, 9581915, 14804306,
      12946423, 947315, 6030045, 13370694, 7023659, 6242587, 14267690,
      13759557, 8384349, 1472130, 10823848, 12427469, 6135763, 15461937,
      905633, 15428641, 8875657, 6668035, 10296465, 16579955, 12078520,
      12605134, 6713719, 7668773, 13541055, 13326932, 13589035, 7014337,
      1389892, 5757939, 2044222, 9639440, 13470822, 10878867, 13789910,
      3410366, 13238781, 6344120, 2144532, 9759236, 15709463, 14431584,
      2045612, 12717348, 2794291, 15169196, 10706584, 6354466, 11984289,
      1935361, 612190, 16623899, 11722328, 3495450, 1833706, 8502588,
      6581191, 10485884, 3975637, 5165173
    >>,
    \* random.seed(59)
    <<
      3761208, 1419508, 15647107, 10914286, 15866944, 7709331, 381825,
      2284552, 14208908, 5031794, 11985193, 390362, 11406763, 10430153,
      177411, 15545252, 13896767, 8135845, 6346184, 8136263, 13531796,
      15116619, 8993472, 4993427, 12772337, 2638471, 12224270, 9773818,
      5685959, 16580550, 11236257, 2959458, 16256878, 16761764, 14978247,
      8821990, 15225257, 1911076, 1696926, 6256554, 10748381, 684032,
      14198679, 5302168, 5119976, 1478439, 755460, 3243496, 12554422,
      1386596, 9452687, 10263165, 16201436, 1473147, 4247033, 5006172,
      1491654, 11190762, 9704346, 14864443, 14175080, 12437128, 10875886,
      10175494, 1776367, 14573164, 5689369, 9630355, 2143066, 11152303,
      6788622, 218381, 13059004, 1570784, 7590072, 4740965, 8999167, 8515193,
      3795956, 5728897, 8681886, 11398103, 16607530, 16397772, 6703276,
      12507520, 5137159, 9980554, 11590590, 2171620, 14850655, 12851594,
      953303, 15522472, 10717509, 16217173, 10091796, 6482774, 10151837,
      7548998, 8607413, 6101324, 11414523, 11641245, 14247315, 12380163,
      4261036, 5954337, 2461407, 9024811, 2444100, 8087001, 9263413, 3572144,
      4078079, 10488230, 7919648, 3795297, 8844720, 10006571, 7332583,
      3931813, 10501894, 11024283, 8818564, 5639873, 8897542, 15465437,
      13087848, 795356, 6222127, 14127855, 441133, 5262701, 15238212,
      10975397, 6029221, 9925344, 6642401, 11495503, 1989556, 235662,
      9696593, 7626000, 13588431, 14465823, 1260450, 4144174, 9466005,
      7018279, 741165, 13583047, 7041963, 8037899, 2600565, 4941721,
      12255146, 5423373, 15570437, 15397633, 8929526, 5580430, 6022527,
      10892901, 12353531, 1684888, 13595250, 4865354, 1106146, 4998114,
      8099442, 12491305, 12238312, 1519725, 15345991, 8137052, 2728175,
      16381074, 14815145, 3817430, 3880120, 7863252, 10194018, 1974293,
      14044787, 1795582, 13708955, 12425087, 5339139, 6850135, 11920559,
      15519756, 6138331, 142944, 3868305, 2037586, 16026885, 5787778, 773042,
      3694199, 16407470, 10442108, 582925, 5619085, 13995182, 11566653,
      4292111, 7029414, 5574557, 6932679, 10582, 12137624, 9613785, 11857708,
      12648879, 14136799, 13853844, 11935608, 3725052, 286312, 4170544,
      156105, 509722, 4848737, 2258601, 4240620, 10367775, 13537095, 3128338,
      3827088, 2488329, 14468709, 1729438, 13031853, 1112907, 10853050,
      2863303, 10332136, 11345729, 8922574, 10142478, 16066000, 9315647,
      16199853, 5146942, 915939, 12579169, 12807967
    >>,
    \* random.seed(60)
    <<
      5164140, 4755012, 9696524, 2585986, 4456331, 3852905, 13554246,
      8111900, 7838604, 14852249, 5578756, 16362725, 15045012, 690779,
      13294467, 15439182, 14421924, 1546691, 11170500, 14388846, 3111499,
      2584422, 6541915, 779133, 4016958, 10718461, 13306492, 15090996,
      154083, 6920082, 13263189, 12183832, 2798043, 2191527, 5136210,
      10477449, 10547474, 13340248, 11323187, 2499452, 8596587, 10006646,
      9331742, 13625728, 9879873, 810675, 10071460, 9448841, 1816988,
      16518815, 5064554, 2509187, 343916, 16007697, 9509363, 3673722,
      4940939, 13140337, 4062708, 9174976, 4604621, 1106830, 15791711,
      3732572, 2151406, 11862915, 15132143, 4299284, 15152739, 13960326,
      3419169, 12276442, 13921687, 14564808, 3284306, 9715637, 10835942,
      16251282, 2047467, 8392568, 5341962, 13582158, 8284651, 6156490,
      6315291, 1468110, 13851814, 8813659, 10847197, 1613558, 562416, 416347,
      9363791, 12100919, 1531620, 1361955, 2935658, 14303866, 6537824,
      11598793, 5289542, 9413682, 9330446, 6529894, 16494492, 12359484,
      13074797, 6514318, 9151027, 11642379, 14083800, 11624215, 2830506,
      5660973, 12010678, 5607406, 16301084, 7724919, 15803469, 1302438,
      8563235, 11704992, 9945010, 14823797, 6437585, 407922, 7374252,
      4279292, 16597610, 8870431, 2231710, 1870161, 14361697, 13572978,
      3771005, 6993694, 9323039, 1490764, 9202724, 7228819, 772487, 8526794,
      8075371, 16356288, 268989, 7156101, 15806122, 1814447, 15745642,
      545365, 9718414, 10736008, 12906786, 13911366, 12249300, 11440091,
      3469100, 14925096, 1145797, 3119335, 6287226, 11211504, 7057162,
      13937004, 8267341, 2350831, 11291522, 11877556, 12772261, 3861074,
      9451041, 15581213, 35633, 8250743, 5624993, 14479336, 10533999,
      14113565, 14925237, 4125645, 256047, 5537056, 12138237, 4416952,
      7986518, 12814121, 5690752, 1428376, 14572385, 4032212, 4856627,
      5716097, 3884621, 12477326, 9257932, 9070715, 10862195, 10813617,
      2809061, 15532144, 8715272, 5801815, 4497759, 16085709, 12916800,
      16775444, 968885, 2656122, 14199187, 6690454, 8169059, 15606003,
      3437068, 8839100, 5335698, 13752663, 12143271, 3178055, 8788550,
      2081667, 1948461, 11454442, 2451871, 4165310, 1196614, 310643, 8951939,
      7656216, 11586126, 16121433, 1727463, 10751017, 14072981, 3867567,
      9329056, 16586290, 14032055, 9060600, 4055961, 7070987, 3193410,
      13791009, 9552642, 13987805, 15170105, 10622864, 7319591, 9386843
    >>,
    \* random.seed(61)
    <<
      8296122, 3048507, 9339737, 3636847, 13585229, 15217531, 5379036,
      4921189, 5384940, 13488499, 11629409, 465089, 8156531, 5996620,
      6028806, 1092607, 6803161, 7739675, 5533118, 16343245, 2811664,
      5614562, 10599797, 106033, 14995129, 8436742, 11556374, 1539913,
      10649835, 2924015, 5663105, 442563, 7273238, 13530590, 2418738,
      2145677, 12225983, 6763987, 4973946, 15195240, 4895059, 12385424,
      16454308, 14159570, 5709935, 7392904, 16420259, 5343403, 10367610,
      6247261, 12770093, 13748349, 10535808, 10486130, 2997837, 13117965,
      11960371, 10317495, 4341425, 7038289, 6840219, 3924392, 2188856,
      3031557, 980309, 9078232, 6166777, 8113960, 236348, 9050352, 6462808,
      1438711, 14262993, 5174758, 16751827, 119038, 7095613, 2984808,
      1810217, 7836962, 5807688, 11973612, 1069847, 6604756, 3648904,
      1927995, 10424395, 5933501, 10348829, 5500946, 526326, 13867803,
      8180076, 4496338, 7089004, 14972443, 6675088, 3270598, 2264698,
      1201729, 6599537, 8293173, 1715659, 15732383, 11511554, 5150225,
      10895812, 8199363, 10548842, 16343879, 6836619, 497987, 16052376,
      14383029, 6186344, 12361468, 3419680, 12107623, 6264598, 13843881,
      15313083, 15042039, 2647926, 14019678, 12812262, 16139200, 15740222,
      16275847, 14293067, 8442669, 7811679, 15844322, 7551283, 1284896,
      14622125, 1830715, 11917028, 3514807, 13536023, 14970406, 2991902,
      2072971, 10204032, 396790, 12385258, 6673400, 3996935, 10919408,
      3478091, 4410902, 14113126, 12868486, 9531851, 7617869, 6875435,
      5364275, 8152110, 1305110, 4316293, 14473128, 4158794, 3055985,
      1787256, 2819237, 6743260, 7703792, 2461445, 5313076, 15045961,
      15434968, 16037767, 2558025, 9918634, 4646631, 1514606, 14273369,
      10041994, 10844301, 2608118, 2379856, 6233341, 1806446, 2148475,
      2845922, 8345070, 14317114, 1262021, 7126891, 4693841, 7302682,
      3918092, 7313057, 7820398, 10791510, 15610994, 11426432, 9709718,
      6392340, 13126905, 15530468, 12169121, 16291471, 8909387, 13163948,
      1138739, 12652442, 975307, 13524234, 2256270, 14533559, 8661309,
      11053326, 5697891, 12740055, 15612332, 8177364, 3347911, 8465624,
      2207849, 11424378, 10753996, 9663643, 10180202, 667182, 890097,
      8184285, 5773976, 16017525, 7454935, 14732973, 13804259, 5400223,
      13070467, 13658066, 14654526, 11319935, 8989011, 4693948, 15736846,
      15198593, 7890595, 11601621, 4848822, 15684412, 2347898, 9432284,
      13957467, 4699196
    >>,
    \* random.seed(62)
    <<
      15569114, 9651324, 2902909, 1093107, 16284451, 13669703, 3994802,
      14972874, 7797245, 5198878, 15061940, 11254784, 5968892, 2870432,
      8523685, 3138626, 2709953, 130407, 16125470, 4372442, 16530300,
      10687676, 2880504, 14511704, 2059531, 507440, 7928106, 7903559,
      8702791, 317312, 13007352, 14570879, 5750335, 15966292, 9900278,
      10838615, 2689903, 11602579, 3567093, 12056988, 1321710, 5474984,
      9157025, 7514175, 9441868, 324742, 10351485, 6675082, 15697214,
      15760341, 5141048, 15056132, 5748581, 6078510, 7768939, 15107909,
      15871231, 260576, 5157241, 14500391, 4873093, 10191768, 7159596,
      3965864, 11572160, 10231608, 4691404, 3274830, 2901373, 10044664,
      12276322, 511076, 9649200, 9560550, 9716258, 3353770, 229632, 2481051,
      4181713, 2323207, 1706103, 10851505, 6127972, 7544734, 15193827,
      8200723, 16591808, 5070324, 14203112, 3393207, 6200453, 15975189,
      9491348, 14606455, 15043772, 2680877, 5759012, 2394008, 6695276,
      9141226, 11979872, 6506159, 5749932, 6731294, 7950996, 31881, 6075149,
      9044563, 13811689, 15042232, 8697206, 1198942, 1640843, 16412030,
      268446, 12482607, 10778636, 7629958, 1951280, 12079682, 11227937,
      15869802, 3729711, 10721100, 8910569, 5580858, 5758522, 11477273,
      10983817, 15279083, 2228309, 16024191, 6859029, 1748376, 11021063,
      4644843, 4355706, 2026547, 16631820, 6706152, 16632319, 6002105,
      16239641, 13280146, 15628158, 8143653, 15793829, 13078172, 9576651,
      5461175, 14053011, 941984, 6810472, 15785413, 1104722, 7816450,
      15526206, 16685555, 15423405, 10633954, 4327057, 6754396, 6298301,
      11612180, 3932805, 9453125, 11963013, 2826325, 2831163, 9405704,
      13648101, 12128791, 622410, 10681330, 6764993, 5753449, 13122172,
      6851997, 8154831, 5931651, 2309915, 567799, 501465, 2893418, 11419824,
      5161369, 1269167, 12994576, 4728327, 12873024, 10102002, 4005418,
      5183346, 12714351, 617291, 2885829, 13335066, 16629875, 12128109,
      11279015, 10268984, 5240792, 1680351, 10804657, 8131207, 11808943,
      16175929, 14819111, 8583950, 15285340, 4271815, 12410292, 15718133,
      6712414, 5822070, 5129162, 8776656, 4254927, 2752109, 8748069,
      14461741, 16201663, 11459525, 7193971, 8907218, 4359216, 8279109,
      2515111, 5703533, 6945462, 7710811, 14952794, 8583603, 16255055,
      328333, 3947569, 11959295, 15756968, 12653180, 6241852, 473435,
      6966820, 2273312, 7101857, 11959485, 12286057, 5805634, 10444567
    >>,
    \* random.seed(63)
    <<
      7468196, 7452929, 4933985, 15611087, 15257684, 4243486, 8125312,
      11069936, 1460388, 6487886, 12582206, 1317546, 1265643, 11063128,
      3397480, 4878350, 1240236, 13866601, 10539575, 5149710, 14135363,
      12520034, 10254140, 1007720, 3732464, 11100521, 14176914, 15800498,
      14621586, 2147005, 5505443, 3939723, 4592900, 10051495, 11303825,
      506363, 16319801, 560587, 15314546, 15201538, 14709001, 10011217,
      12009373, 2735646, 3821853, 12799958, 10283273, 9322441, 7179110,
      7237739, 10716420, 6056581, 8175125, 11745881, 3457202, 1769645,
      15063692, 537419, 601770, 16740668, 5727994, 10468530, 5530867,
      12610559, 16215424, 15539300, 1972123, 366629, 9695105, 15431806,
      15820357, 2861522, 10259778, 178526, 15561252, 14557495, 6615168,
      14215725, 7343650, 854956, 6213439, 1024533, 6189053, 868784, 5835198,
      7089595, 1250893, 4235789, 16529247, 15968764, 12307689, 9078691,
      11381595, 15451954, 8931525, 1163367, 3363476, 8413713, 3782200,
      9623715, 16230507, 6878186, 13823682, 11130671, 7644958, 2667736,
      12472489, 14018721, 16082910, 14346453, 708163, 13450990, 6137595,
      3600044, 6750326, 12588446, 5719934, 11398845, 9050595, 2600131,
      4944814, 7999747, 2035355, 15489319, 14586532, 16741345, 7112503,
      2248226, 13447499, 6060015, 2196060, 2149998, 5156889, 791921, 8278315,
      4046264, 618379, 1773836, 6948297, 10550493, 3001556, 13489825,
      6642234, 15098037, 4917278, 13398424, 13065634, 8392052, 8520129,
      9122908, 4224134, 1707502, 9887072, 13510147, 8004057, 527720, 3731275,
      5818289, 13049281, 16529626, 9755011, 11852772, 212953, 12607674,
      9074991, 10745943, 6675314, 7934364, 1450017, 1056731, 16289736,
      11679758, 10407896, 10229607, 16661189, 15032371, 7994236, 6148255,
      7338451, 16526465, 2632966, 3924019, 11139409, 15337410, 8105910,
      4329139, 3023969, 5903810, 14088261, 6272152, 9905490, 9019844,
      1440714, 15349800, 16436694, 10926511, 7018259, 5052427, 15507913,
      2958346, 6892456, 7686396, 873632, 9264951, 9212953, 4446946, 6838015,
      929662, 13103683, 13849838, 8310700, 14562459, 6211609, 6169053,
      6907297, 6099229, 8087895, 16579721, 12261364, 15138778, 13452045,
      7750227, 6661349, 1427769, 2365254, 8238633, 234144, 7470832, 10071081,
      5359161, 3948128, 3068436, 14278796, 5106499, 7105872, 10092881,
      16075054, 15158095, 1291527, 12664680, 14015807, 11911168, 1985033,
      16391381, 4097471, 13517691, 6877947, 599462
    >>,
    \* random.seed(64)
    <<
      7988610, 2094652, 10573321, 10284254, 6777340, 8995231, 15435441,
      11523595, 282723, 3414350, 16569355, 4507174, 11813080, 15312395,
      13488797, 10612447, 13473879, 12826660, 3378379, 11721527, 13747541,
      13055889, 10955000, 16357749, 2473481, 1339024, 14450743, 6991632,
      7382584, 3326249, 12101214, 412892, 1403681, 6760136, 11399527,
      15297699, 89645, 15563330, 1070862, 2928690, 1768530, 9843131, 767054,
      15938957, 9879785, 4429281, 3678403, 9046781, 3300706, 1490180,
      13672633, 495659, 12913083, 7690313, 6660771, 14959210, 3586254,
      4963789, 12455276, 2303278, 9222082, 7161915, 6020001, 8543213,
      5150926, 12538769, 6110283, 11548771, 8165765, 8710284, 3002509,
      840146, 27532, 3878832, 7808702, 2700137, 3581803, 3685174, 939202,
      10761145, 4710372, 3645330, 11287334, 4116379, 13915687, 13352668,
      495532, 12117823, 13528632, 15753576, 5084376, 14677840, 14379329,
      1868149, 14879825, 2624383, 5010362, 3737561, 10769174, 14597118,
      9549983, 11352345, 3980400, 15255533, 16145179, 14649030, 11007528,
      4076254, 15917362, 16020498, 2491875, 10339988, 4326377, 7116574,
      15455152, 7467232, 5042692, 11893527, 6252049, 2860459, 4593808,
      2605953, 13871672, 3011082, 5000672, 746928, 2133029, 890552, 1862266,
      2015150, 15421998, 8558512, 942165, 14037145, 2838848, 14793390,
      5588457, 16137273, 9424751, 4208656, 13977947, 7096286, 16287970,
      13190246, 7936597, 743595, 11300235, 8265347, 5329158, 11588657,
      8641193, 11849373, 626803, 899627, 12528177, 11539341, 8982146,
      5249050, 11275074, 14449631, 14135164, 2389468, 13807732, 14750185,
      16465982, 12721842, 12228548, 12809655, 1834573, 8409006, 5505876,
      5156791, 10457624, 8472517, 2149392, 14621312, 6556202, 13662476,
      6493142, 6269192, 2288808, 5460792, 7006351, 143859, 11393289, 153733,
      15599496, 5209969, 11061119, 10682047, 10300011, 12892157, 2878735,
      6411901, 16499394, 3118587, 12862394, 8878923, 11611829, 3862086,
      7993643, 4678668, 9459299, 7504634, 1389050, 5313702, 4982125, 4288413,
      425965, 7129270, 16586711, 15813789, 6067590, 12530038, 10907444,
      1754970, 12642564, 2074422, 7891013, 10809318, 16427165, 6044430,
      16458984, 12426216, 8191629, 1621144, 766123, 8925101, 13142989,
      11108662, 8601186, 1509489, 373167, 14863343, 12186038, 15071364,
      10152384, 12524264, 16394298, 8401841, 10034192, 2079816, 6839531,
      6333408, 1927494, 6449271, 2714112, 8801845
    >>,
    \* random.seed(65)
    <<
      6958249, 4846006, 4826807, 8627501, 14171921, 3690105, 7445242,
      7691560, 8870559, 7433945, 9248594, 15549330, 5685849, 13856120,
      10728956, 7322711, 15100126, 3783988, 1207795, 14854788, 9410599,
      7837280, 4429889, 3302287, 11000353, 7941255, 10458586, 11661815,
      767378, 4309136, 1894189, 2670594, 8864235, 12360063, 14405838,
      2269909, 13382668, 11506668, 13822579, 2092239, 2299401, 11578553,
      5881238, 6166198, 9679082, 10945092, 6148319, 10362569, 3869880,
      16477941, 15470028, 14617140, 10656892, 3818071, 6677559, 7544412,
      7986761, 838642, 11737198, 2565280, 12738851, 348435, 13078308,
      14482003, 5611418, 4199727, 16234257, 5359822, 12801678, 14915219,
      4539907, 136782, 2885230, 12358030, 7216152, 1233381, 4371887,
      16250565, 14723510, 9182607, 156239, 3061158, 13723018, 13501033,
      2715761, 9613265, 13620276, 9026595, 7260167, 7216299, 2211053,
      8654014, 16531632, 12798662, 7029552, 12429648, 16413566, 12417170,
      5409723, 3753569, 3988280, 4989769, 9316065, 5959949, 3266470, 6221110,
      9681738, 10087475, 11864845, 14628683, 10757186, 13166842, 97588,
      5110468, 11206904, 1096975, 4496729, 4849293, 7605581, 13209859,
      14395129, 2712005, 14540845, 14127300, 2213620, 2227611, 1535826,
      4645477, 12641144, 11934052, 7238140, 9954583, 11871479, 6654583,
      10850557, 6266839, 16603031, 9158830, 14431503, 1353298, 16692473,
      13185986, 15143286, 10927075, 9545446, 11072886, 6830007, 2545524,
      2728004, 16681339, 14089732, 14624926, 8253191, 14601070, 8147719,
      10516568, 4918968, 8009684, 5543966, 13947556, 8466078, 14100295,
      10786958, 14499760, 5197596, 15508337, 2507432, 14130282, 9984209,
      7971863, 15839896, 11804706, 9412669, 334112, 16419491, 1536065,
      3030508, 8713751, 13363211, 5788923, 9024272, 11568034, 530618,
      16265464, 2931488, 4448040, 12092300, 11136736, 13732082, 3573558,
      2212819, 4452806, 11462634, 13308726, 14888162, 4916286, 4031912,
      5239834, 13906866, 6628158, 2602609, 7004624, 2317806, 10364076,
      13362896, 14803900, 14867753, 11490630, 11736694, 16557165, 8417844,
      4692843, 11006405, 1548718, 9457519, 14921381, 10180321, 11846367,
      15575610, 8950039, 7957464, 16381855, 4546653, 3707387, 3674417,
      3811993, 8834145, 10471256, 12763563, 14270345, 6479563, 12358641,
      4430067, 4295054, 2697716, 3717877, 12083786, 5688446, 143815, 4971293,
      6027694, 4707932, 2718122, 6561828, 12144538, 6669437, 12388711,
      12232559
    >>,
    \* random.seed(66)
    <<
      1187976, 5234264, 7291172, 15498562, 4131385, 13202892, 7477366,
      4933192, 4296440, 16415443, 14453341, 13141554, 9402543, 1597022,
      12487012, 14525138, 15544462, 14150580, 8303344, 3090877, 7860758,
      8767355, 2146765, 15387005, 13157909, 12013382, 1166011, 11986614,
      6096608, 12216524, 2805556, 6835063, 12216820, 11825999, 7683041,
      10715941, 8471067, 520045, 8864241, 1884072, 14141374, 6443535,
      16439076, 2276468, 6214086, 400071, 14770889, 158937, 11911477,
      3458949, 11697911, 7852123, 16394426, 10320940, 3447468, 11218219,
      5342542, 10132233, 8102867, 15935977, 5139917, 3377329, 4884033,
      1167331, 3344881, 12704037, 15456457, 5374489, 16279683, 11187051,
      14704453, 5924796, 13315312, 16065111, 6814587, 1300172, 5208206,
      1464888, 6770304, 4584942, 289102, 10245525, 1977346, 5884924, 7948082,
      10136725, 6962473, 950049, 10966462, 6679059, 9407651, 11801778,
      1669972, 12411557, 14232928, 10138416, 7148602, 5299203, 8023561,
      13798185, 6229574, 13272195, 6156134, 14828175, 15431123, 12063003,
      16208185, 3665680, 3085823, 75995, 15397310, 5254814, 13600523,
      5210321, 13816856, 205654, 4744561, 7936184, 15066119, 5398252,
      9764948, 12471928, 7689999, 5696126, 583659, 10218992, 8668383,
      10615554, 2928712, 12407533, 4836114, 5574143, 14528128, 1756784,
      5760684, 1011999, 13665430, 12999459, 6151997, 13484154, 1923505,
      287043, 6676017, 393778, 2804283, 13093872, 2579537, 9246121, 11307739,
      11082432, 11689708, 16264892, 3063106, 12859546, 12242375, 1697933,
      8980400, 7081160, 1678523, 9395670, 1667051, 5068873, 11774853,
      6487808, 15303026, 9525455, 13827088, 14773153, 10067033, 3907979,
      1116257, 16030239, 12438034, 13008827, 1045013, 8266995, 13075507,
      11252425, 1491371, 2916643, 16318556, 9308423, 8072146, 6262387,
      3621090, 10152363, 1661479, 13985560, 4426997, 7281257, 11816089,
      3562617, 4512703, 6960660, 1318030, 5786984, 12616241, 15401630,
      2821157, 6729476, 2825902, 11326900, 3555810, 12064488, 2429723,
      9565279, 4107256, 15983902, 1189705, 13071085, 223614, 14125579,
      2020954, 9855353, 6583109, 12636992, 15467916, 14556095, 14028346,
      2010882, 9237381, 10406769, 2735554, 9921694, 15600236, 14316267,
      4492976, 12514697, 8745408, 13370865, 9408349, 6329130, 6996788,
      12599453, 3826859, 11611162, 15066242, 13057252, 1816258, 5301762,
      5713818, 5205867, 11579420, 4988872, 4707985, 15804576, 349926, 11799575
    >>,
    \* random.seed(67)
    <<
      1254831, 1947722, 12851359, 6851576, 16309025, 7845650, 6967463,
      4476996, 15852390, 10005190, 7205250, 8183737, 10428951, 4664499,
      15425880, 14919596, 3418426, 10801154, 666742, 11163604, 2965723,
      4831486, 586999, 2650958, 7372936, 3038991, 2063892, 11454366, 1602530,
      8240977, 5171066, 4098414, 6722671, 12549611, 14791629, 9921043,
      213324, 6670872, 10904039, 8834784, 15221897, 14798076, 12305962,
      11824966, 2694188, 16309354, 2562205, 16332940, 6222689, 8711524,
      110095, 11771483, 16256802, 7454635, 12821150, 12318010, 13564861,
      3909092, 10917941, 11219692, 16555475, 11303446, 6523736, 13642114,
      685207, 14770718, 6006607, 2686518, 7300865, 9409253, 13563204,
      15205808, 47967, 9992986, 14361227, 7418120, 5864996, 3956414, 436486,
      2293070, 10152438, 22047, 14635374, 2752703, 10199093, 4023224,
      12338724, 11281825, 7369982, 1302729, 6644274, 15460001, 413934,
      4341033, 14630956, 13395990, 9644807, 8366524, 2244395, 12382526,
      3193578, 8904970, 9023565, 363390, 11617005, 10666105, 15953694,
      10852370, 7164575, 5022724, 9182590, 2016700, 11714650, 6429876,
      1056385, 4897659, 16124289, 7355921, 6402461, 12873828, 16532937,
      3958251, 14682033, 129244, 14066456, 15937850, 2377567, 8428908,
      7634163, 14323499, 8155255, 4118132, 5269079, 1619778, 8081553,
      13542983, 5098754, 5150966, 9836526, 8411682, 12003508, 6500552,
      11412830, 8723319, 13534338, 12298549, 13315575, 12776622, 6038719,
      621561, 10889020, 1674676, 12938793, 4539784, 1248183, 8445808,
      11307684, 4139505, 7731856, 2064452, 2335042, 10401978, 4882768,
      14722156, 12913107, 4793204, 11165160, 4055075, 9027184, 906538,
      15140191, 7496689, 10067193, 9131680, 283840, 11888295, 10807436,
      4533468, 8576856, 13427137, 13195216, 15257281, 10444893, 16698902,
      12751490, 5104085, 975579, 16010544, 11574612, 16762262, 3774572,
      2704756, 2540977, 7512376, 12706860, 167471, 13667551, 7721865,
      16075102, 8435206, 5810426, 2515545, 15979382, 1874050, 11097784,
      5778090, 11512113, 10475002, 13790576, 13501329, 14040982, 11256465,
      1064432, 15979795, 10437274, 6021065, 10053338, 11357575, 10995254,
      1002863, 5938938, 10280808, 16115136, 15182661, 3334928, 14506534,
      13902231, 1835888, 3347592, 8050465, 1678148, 14276973, 1593130,
      16095652, 15048124, 9291584, 529788, 8109758, 4849396, 6111492,
      12478802, 10157038, 5173341, 499746, 15734560, 10169758, 14007795,
      2042604
    >>,
    \* random.seed(68)
    <<
      12443139, 7824328, 15784069, 11569513, 12539348, 13845365, 15236103,
      8401711, 1861889, 10178844, 9726979, 4083007, 7245531, 7872404,
      4454226, 12080086, 14435270, 11327469, 5526440, 7350532, 16335481,
      9281709, 6060826, 2794443, 9288281, 10884450, 12989358, 13076810,
      13115556, 2078392, 701042, 9155952, 12306781, 8086386, 1779531,
      14550854, 5745449, 930720, 1566808, 13299032, 10156572, 3004951,
      3273734, 13067646, 3220080, 79705, 8862251, 13930641, 7114796, 7394266,
      8990025, 6294185, 8788954, 2131096, 11764520, 11371902, 15068656,
      9387888, 16265692, 417554, 9888093, 16696341, 10500610, 2486023,
      9932408, 9509247, 5804677, 2413001, 13137892, 13767558, 2075590,
      192914, 15754689, 15876186, 8008584, 6399578, 12605846, 10186794,
      11628991, 4807882, 1343532, 3357163, 7100135, 7150587, 6436841,
      6908102, 2053516, 14997196, 12427622, 4276129, 6996228, 2970928,
      11082096, 13380432, 701290, 546146, 15734711, 16684695, 6891993,
      6464309, 14000347, 2630495, 12804588, 4033813, 1526844, 14469155,
      12575763, 5976303, 11928620, 5911524, 13487288, 16431318, 13099553,
      13850356, 4362236, 14710970, 9907796, 14660861, 16246315, 9598905,
      4066253, 8100761, 6298459, 7838551, 7685512, 13730888, 9333522,
      8438126, 12739260, 7967925, 6379570, 14728163, 10663884, 4997506,
      14219402, 66057, 462611, 11217920, 8800420, 13040368, 1683263, 7463313,
      14389322, 3635144, 9607200, 13912977, 4200530, 9994361, 13508496,
      16359820, 3537699, 14504412, 5861850, 7910706, 14677943, 5039972,
      11312774, 1877799, 13144297, 2057277, 1168268, 9654071, 4673818,
      9756395, 13325641, 3058928, 16086413, 14522368, 5830558, 448180,
      4867881, 2199377, 9824826, 7765376, 7165877, 15678265, 9019563,
      14770037, 12607372, 5523331, 14609340, 5890592, 1761531, 12226804,
      4236702, 10845081, 7069300, 5399648, 1225387, 16183448, 12486325,
      2786695, 3445927, 11650315, 13494031, 6836811, 5572790, 15466229,
      11445471, 3935604, 10253672, 14393679, 7023889, 14995073, 8213443,
      11877771, 14047614, 9484162, 15505411, 16661572, 6148266, 7182135,
      11526642, 2002628, 16116649, 7511742, 4327072, 16574914, 12661776,
      7884730, 264690, 14848706, 4170180, 1986490, 4298071, 10263724,
      5593470, 4685283, 16685497, 12202916, 1756355, 3826003, 562557,
      9449164, 11466096, 15343090, 8321426, 12874341, 10237566, 11624393,
      8822905, 2973542, 3712845, 14929678, 13473211, 4440401, 14796128,
      15888400
    >>,
    \* random.seed(69)
    <<
      11479658, 625867, 1607883, 13445123, 2800365, 1118632, 10152293,
      5781721, 5503531, 15432980, 15344816, 14647686, 13221303, 13333865,
      14507190, 9214136, 6954704, 7798333, 13905664, 7186457, 9513445,
      7342524, 13935376, 8714823, 5388758, 9394618, 9197543, 13567735,
      7386703, 2381625, 6915538, 16669379, 6578616, 1079589, 6951113,
      4800712, 2469767, 3288658, 2389667, 16593491, 5202051, 3539974,
      11637982, 15426281, 11087740, 15727142, 12667463, 15575014, 12167913,
      8444717, 13698502, 3483723, 1732470, 1667716, 6497535, 14922049,
      10433205, 12229898, 1096035, 4398165, 14645608, 13404883, 12131611,
      10186930, 6242465, 14917313, 682672, 1055582, 1573148, 3665763, 511218,
      2434990, 4181015, 15025224, 4099395, 4587990, 2524678, 15074624,
      8035102, 10512366, 13474005, 1351238, 11778879, 5509792, 10633197,
      4421456, 15619345, 8974915, 8696585, 6992391, 561434, 4280055, 1429948,
      12360726, 2066999, 5147197, 6651231, 15275882, 10908929, 14355012,
      15573119, 4570652, 2586189, 11225847, 8195085, 10571887, 10817648,
      10588393, 7884760, 3214369, 4655751, 8944009, 3116040, 15607658,
      13610345, 10614939, 14858071, 6740904, 3632732, 10985150, 4585858,
      6939528, 8134984, 12930620, 7065971, 4338337, 11179072, 9447008,
      1085373, 8935321, 5927270, 11276180, 13417786, 8509424, 9577874,
      6389022, 938798, 1336124, 13286289, 7406254, 12038861, 7294179,
      2127348, 2057891, 11569306, 6106616, 8279053, 16259502, 3491207,
      455673, 14755782, 13684573, 13894812, 12722010, 16110107, 6559878,
      6383634, 11707199, 15462743, 4119963, 10449195, 4339040, 7469065,
      2545866, 986005, 4776657, 1930517, 9180451, 8433163, 15178732, 969799,
      8375457, 13675808, 7532772, 9842048, 15533343, 3307716, 15458457,
      10201510, 12120642, 9219650, 13331031, 5764217, 1388792, 2090171,
      6583863, 15582520, 12638702, 15733863, 2784980, 12653550, 15891170,
      15102183, 9325756, 1068640, 13442474, 11469843, 1228213, 15861060,
      14364996, 11729215, 11890645, 12697689, 7830252, 12712067, 2295840,
      16483290, 9042926, 8150869, 14360265, 9710406, 11924282, 8978156,
      14341891, 11845159, 5693998, 2034929, 6389027, 6473729, 8399842,
      4258092, 10368484, 13096670, 8140433, 4021406, 13279484, 13754194,
      858399, 13078208, 2623274, 1549167, 15825531, 4838583, 114957,
      11740356, 15583161, 1240236, 10752453, 11237726, 2270245, 4644479,
      3162700, 1856866, 4899753, 14963310, 12731139, 3469823, 6144487
    >>,
    \* random.seed(70)
    <<
      15263395, 1986985, 4933827, 11795208, 7708021, 7550794, 2287719,
      5405055, 16694348, 1793814, 2594495, 13754257, 11306829, 11329338,
      10033203, 3632678, 11989396, 11226778, 6887482, 13521061, 6376840,
      3936451, 6709149, 10888931, 1217213, 8467769, 5364764, 12950116,
      4627712, 6314245, 13100027, 14920682, 7480001, 14376081, 1616597,
      1570709, 531810, 8236326, 5804527, 4742697, 16520823, 2256854, 426611,
      4452875, 7562372, 12620645, 12903854, 13998550, 2030426, 8369731,
      13479399, 14138473, 14829291, 11883695, 13865226, 1088717, 2245262,
      6022726, 15619648, 8998367, 3840886, 10058863, 13417270, 1351698,
      13370246, 1010496, 8776428, 6606175, 12615678, 689565, 12960750,
      12434180, 13439775, 12479264, 5192134, 2475490, 16153985, 15986701,
      10433950, 14813850, 5984109, 15745792, 2043154, 3299285, 14087069,
      2581675, 16525799, 9776867, 14633052, 9161513, 11054405, 1237396,
      12226179, 4933395, 6613942, 1783218, 2528147, 8374724, 15559164,
      7228238, 12968664, 4573926, 9162942, 10207454, 14648014, 8623811,
      2549682, 12199836, 1690432, 13367366, 4571603, 12807665, 15073825,
      11876733, 5994945, 13915419, 1534632, 12445185, 3055033, 9926804,
      1956949, 1328371, 15054596, 7773519, 16339661, 13247080, 973053,
      1029443, 11192164, 15906556, 3646240, 4225557, 14318356, 2042169,
      4349757, 16283867, 12573852, 11066295, 900627, 15695403, 9606853,
      13969036, 7146409, 11818481, 2138941, 1080378, 15463730, 16596170,
      7833779, 4824528, 12412667, 1222580, 3162481, 6762882, 5321877,
      8634861, 14770586, 2387615, 8717991, 11064487, 16214735, 4333686,
      11466047, 10658047, 16484056, 16450978, 5813039, 596590, 8714249,
      6253170, 15201484, 9831197, 806164, 1782239, 9078213, 649504, 288595,
      7023115, 3983872, 5405128, 7077299, 12634601, 4182024, 7900530,
      1229249, 13777621, 1312409, 13723707, 11212010, 10177726, 14590896,
      11291886, 10108225, 6483291, 5673756, 4358987, 12246579, 9563762,
      499513, 13249868, 12950619, 16303725, 9493402, 15383142, 8489631,
      3657430, 9985787, 3163731, 2180147, 1007457, 7908327, 14676624,
      9012437, 11878404, 7532191, 454862, 8640328, 2146404, 6385333, 8387269,
      10199894, 6837257, 5993597, 3821643, 15808021, 5036031, 4319215,
      2376091, 13064112, 9964004, 9156805, 14715640, 14680594, 9116443,
      12979781, 6070347, 7838939, 16592024, 16696396, 12267939, 13815073,
      11483936, 2683055, 7416890, 5179160, 10969076, 4089204, 4873631
    >>,
    \* random.seed(71)
    <<
      5431679, 8530567, 10402368, 13398955, 142270, 4444803, 16489617,
      2596868, 13793530, 12694687, 16760770, 3343172, 4418284, 1455325,
      3346864, 8593834, 918350, 9973445, 3251464, 8468356, 405769, 13632129,
      11605438, 8837109, 6134919, 15619890, 13682853, 7669082, 12761958,
      2182217, 5860689, 10848416, 2798434, 618595, 5833012, 10174907, 508268,
      6517678, 10877103, 9784905, 3184160, 16200284, 2495321, 5390385,
      14904931, 13953959, 7332284, 7481280, 15872188, 1633780, 16446229,
      15363623, 11139499, 351039, 4189702, 10133787, 2478151, 2616894,
      4137086, 13552622, 12358581, 14644141, 8586715, 5951558, 4997955,
      9703352, 292442, 4215485, 5890073, 3495849, 6589238, 491027, 1163095,
      1636912, 4185769, 1647565, 4956887, 2334093, 6979005, 8012979, 8286352,
      12937966, 9489702, 9963951, 14253011, 6010041, 4948095, 16031998,
      1591971, 3432791, 5086223, 10426883, 3624071, 2694926, 9657505,
      7404690, 7990094, 9162306, 5386496, 4367828, 1590093, 11284308,
      12600192, 12575539, 10468738, 12841037, 10455966, 4326462, 11793368,
      12521920, 14342940, 413475, 588595, 14186016, 3166978, 3712136,
      7913814, 5469741, 11760024, 14103065, 8458932, 13726845, 8473901,
      14542887, 5155010, 15969180, 4090038, 4529205, 14662700, 2385409,
      16488843, 898846, 8383829, 9022427, 7842306, 4001855, 2154591,
      15317586, 10086714, 1535268, 3552589, 16677520, 10494862, 7391242,
      4672373, 13791055, 7839574, 7135003, 14516320, 4340689, 5230415,
      6307252, 8974290, 12075590, 5345764, 10458138, 8146845, 9234808,
      14550710, 15042901, 8261549, 99671, 16183673, 14230016, 6842821,
      3624900, 7617977, 5082929, 10820955, 9523665, 8407035, 16660392,
      11273351, 15969186, 4874940, 11485401, 227690, 842381, 7089169,
      7134434, 1080019, 5419913, 4163130, 5730492, 10031046, 14056258,
      11581396, 2544751, 15265059, 7496991, 11382636, 9634827, 9316380,
      13940803, 5776730, 9949105, 8002047, 831620, 4834073, 6392652, 1720031,
      9521730, 8972760, 12314165, 10584375, 4767572, 5157613, 14615042,
      12410191, 9227036, 8890578, 12865079, 5189790, 12061080, 14282995,
      10841624, 370614, 13920425, 4508931, 6327487, 5385190, 6851777,
      11287113, 14580430, 4238597, 6103556, 16480959, 9650976, 1764018,
      9485399, 7549795, 10171760, 7880065, 1252081, 12489025, 14943457,
      4265134, 8348194, 2722307, 8080653, 12484465, 15263176, 13206759,
      11507045, 9650326, 13443012, 15150576, 7330520
    >>,
    \* random.seed(72)
    <<
      1231894, 13123293, 9971738, 12387672, 16600165, 3125036, 5771096,
      11725938, 9126374, 10398343, 6280390, 5149458, 12408470, 12042044,
      11500174, 16537080, 10044980, 2164259, 16375928, 16611200, 11792966,
      11665345, 5751726, 3901008, 6374484, 2405421, 10630681, 453842,
      11610100, 13549190, 3724479, 7637915, 13573184, 220762, 7499772,
      1157879, 12958747, 4955553, 1527942, 8484327, 5328420, 12181490,
      298456, 14644858, 6995112, 14814674, 4261727, 4519515, 5820235,
      6212869, 3701590, 6270028, 14288489, 8186423, 10656929, 4173766,
      5868560, 9957239, 8345869, 11697801, 3099735, 5034701, 15809057,
      6847566, 15190893, 14205120, 9585907, 5629734, 2573521, 7608274,
      15990792, 14676660, 3634877, 704199, 922020, 5533725, 7021001, 1027232,
      6331635, 1223732, 14263732, 15401093, 2458453, 5004081, 1022448,
      16209753, 7407356, 8203953, 694233, 14507730, 11122627, 9070587,
      8186756, 9265491, 14666296, 15306014, 15692699, 6580253, 3930156,
      2027233, 13202249, 13967491, 8378810, 9372620, 15945912, 11770729,
      1332647, 4367499, 7658391, 5594500, 16446708, 8046337, 937101, 1356576,
      5108242, 10885239, 5195263, 11638703, 6070741, 3995416, 16653041,
      13873621, 3203850, 13135212, 13819627, 8420081, 4476364, 14932606,
      14671721, 16071931, 2462239, 13093135, 1685821, 7045373, 16543162,
      11089060, 222123, 915091, 10772757, 8335273, 3418448, 16755694,
      9707760, 275683, 5330390, 3374875, 10472311, 14279561, 11372429,
      14266491, 12578918, 3567609, 2042462, 5411029, 13912204, 7365523,
      4005563, 5934431, 9955132, 10955820, 13582480, 3297113, 12948474,
      120435, 8902709, 10411134, 8348766, 14982121, 2586407, 6401799,
      14753668, 1714314, 9977952, 14701134, 12944729, 10561763, 16211430,
      5624451, 11749293, 11788143, 5036190, 16312922, 8061772, 9516122,
      2896492, 14490383, 4652332, 486296, 14383509, 14044419, 11212197,
      8081494, 2801033, 15073502, 8751295, 8643726, 6859820, 6455520,
      13692779, 12143209, 13952216, 509685, 5923297, 13904960, 1397113,
      16257001, 3156273, 8525982, 9469230, 7139097, 6110788, 7709276, 591246,
      8948549, 12493633, 3643207, 10310185, 16538832, 5475335, 12098145,
      507881, 12020512, 5948527, 11334820, 9828978, 12838459, 1064688,
      2192884, 1796835, 6945846, 691357, 1993045, 526401, 5662725, 10269789,
      15358437, 11971399, 9024378, 10709785, 12251208, 5343520, 14459166,
      5947910, 12061628, 195130, 9557136, 13530713, 723600
    >>,
    \* random.seed(73)
    <<
      4694524, 2050351, 8424518, 8056821, 9464829, 3072512, 7733656, 4993942,
      9843806, 1235378, 8174426, 6782439, 8688908, 8397100, 3392892, 7564615,
      1852112, 370790, 4279908, 6905431, 13083138, 14331666, 426298, 6972774,
      5908717, 9356305, 7086002, 8358723, 9278816, 16626827, 7273376,
      3025569, 14351379, 939235, 15724951, 4447142, 9541331, 9979775,
      3397089, 13209822, 14680903, 11947136, 14355538, 1523568, 7788843,
      12025746, 13387614, 5864598, 14837657, 4961730, 15953788, 2185795,
      3841738, 402191, 3645775, 14560644, 13467722, 13498109, 4545093,
      15595677, 4602902, 11879361, 820896, 15566141, 12787708, 14330410,
      3974543, 8467246, 2853417, 15212232, 10291321, 7211568, 1413953,
      1388108, 13160159, 11400756, 1374386, 10934113, 16306818, 3206020,
      2213058, 9336304, 2391750, 7367799, 7755386, 12889456, 12848348,
      15014457, 8172083, 13678375, 11889064, 9404345, 4056969, 5865479,
      14394992, 5097762, 3403721, 935174, 6880142, 1819367, 13475667,
      7183556, 6588751, 14142636, 989467, 11117131, 12061851, 16326913,
      1506389, 6068536, 6887363, 2812358, 5757219, 13074993, 8209606,
      1556043, 2290378, 4036479, 15502396, 2072149, 13633600, 16171082,
      9197898, 15648805, 5038665, 14355971, 6475679, 6916393, 4343951,
      11948605, 6837651, 1359341, 8196641, 561857, 12570188, 12887578,
      1601368, 1756203, 15654179, 10629311, 15055309, 4389953, 8976603,
      7832588, 9187166, 16667347, 1517086, 10753578, 3666555, 5430463,
      755063, 3824083, 1835702, 797632, 12122757, 4880006, 3319242, 14627461,
      11656516, 15631102, 13059152, 2287596, 6966664, 449507, 11407743,
      11933713, 9903943, 14219865, 10384160, 6774865, 9910936, 10935302,
      10801067, 11320758, 2607008, 290938, 16695748, 14830488, 3448509,
      12709060, 2247118, 8867994, 4002752, 16353443, 13718050, 11074620,
      16404601, 16771154, 16591206, 6432309, 2260490, 13529358, 6437027,
      13770322, 12640125, 1205272, 1843595, 10227420, 6916284, 4265690,
      9498817, 6332656, 4573273, 3299351, 5023254, 12870182, 7963148,
      5812092, 2254546, 7389908, 14990998, 6855541, 7898818, 6519770,
      2865982, 15015455, 8315648, 5039605, 6106501, 8813477, 10671426,
      11992898, 1122754, 4523005, 6161518, 11288246, 1168469, 1505343,
      9994892, 8595317, 8237639, 9024620, 13309213, 12026543, 10608129,
      6282578, 8706792, 1408948, 10504731, 16334343, 5360071, 14248821,
      8837875, 15083878, 6480339, 11720792, 7609310, 7798270
    >>,
    \* random.seed(74)
    <<
      14423849, 10244582, 8644960, 14550222, 1906072, 5356491, 2023584,
      13421619, 5186193, 3051115, 14686986, 14364464, 15664018, 3634171,
      5895720, 2014977, 7409899, 13450122, 7662439, 8792026, 15504436,
      4661406, 7482612, 2866572, 5257183, 4683754, 8434184, 10479287, 50538,
      11565726, 8627502, 743770, 2133985, 15875979, 13799331, 3830980,
      7355444, 2607130, 15992485, 10020077, 7046910, 3942576, 4516674,
      4282666, 16694461, 11137960, 14646253, 7331636, 789, 9245697, 16483043,
      3396093, 14429639, 11128411, 15532211, 2677123, 9508697, 952604,
      12352540, 3642756, 12010688, 15413715, 5595918, 719743, 342905, 309677,
      11581910, 14174217, 16017216, 15727176, 1769765, 6641250, 11625167,
      9510082, 8292416, 12041044, 6641882, 2445876, 11699992, 2864555,
      10043611, 2927868, 13086868, 15196243, 7212316, 7758321, 7768970,
      6368970, 10462216, 1707784, 3828451, 3118763, 15361525, 15449485,
      921701, 7363879, 14056614, 8368713, 2119069, 7922171, 2611588, 3171489,
      16771828, 5141432, 11078788, 339541, 4830103, 10933745, 11667238,
      9256898, 5148996, 8568590, 12051220, 5011011, 5361667, 2979982,
      6289645, 14283822, 1850717, 3325611, 9518891, 15011547, 2911993,
      10852055, 8928127, 5800979, 6916002, 14734439, 12019846, 12988725,
      3818419, 10730668, 12295597, 5404749, 1516657, 14812308, 14810801,
      12506620, 2040946, 9961732, 8115866, 3558275, 2136828, 10238447,
      14049491, 5043057, 4847725, 9112727, 2344349, 941928, 11677364,
      16193246, 13643519, 9385379, 10437101, 8088763, 10524096, 12269847,
      11457092, 1445556, 15370434, 15620290, 4988873, 8044407, 1427254,
      6694819, 16064391, 14480102, 11462997, 651026, 11784466, 11775796,
      14541272, 13003115, 3154500, 3038835, 11018397, 7027503, 8230719,
      13536679, 16439146, 8414931, 10942885, 2205139, 9529920, 7468354,
      14820247, 16084871, 12266784, 2430801, 8535421, 4943231, 12576803,
      8746155, 4259030, 7747233, 9389214, 12322526, 7106111, 3269801,
      9682507, 10178354, 13819161, 3012159, 15589551, 4109565, 13509346,
      4803064, 11398343, 2637122, 14875336, 3315743, 12397142, 15176384,
      6465043, 12380526, 9986409, 5069926, 2011021, 4490421, 2603723,
      11565766, 10043046, 6463917, 2876257, 8013647, 1690479, 10110768,
      4130179, 294491, 13187901, 10680447, 16423571, 5749008, 2621304,
      3201049, 552241, 2188366, 3121402, 6928695, 10397344, 4134684, 1367960,
      7667402, 3536949, 6930966, 14634773, 11018108
    >>,
    \* random.seed(75)
    <<
      7563926, 9811288, 7325260, 7622844, 698510, 12227209, 12878648,
      8624416, 11298705, 14292914, 11255121, 15537428, 7930010, 15262889,
      11286555, 11397247, 14805578, 14210847, 11610209, 13783820, 5798917,
      1678377, 15054590, 11614808, 5318283, 15550978, 1405662, 12706957,
      4214169, 4606689, 8330478, 12079425, 14450090, 11147876, 5833720,
      10178127, 11098840, 8149855, 4497359, 6856929, 461242, 6345319,
      16371722, 9084060, 9605090, 11460435, 7764375, 15528562, 11343163,
      3332140, 2209184, 3296761, 14717682, 2408298, 5068809, 8266603,
      16088174, 10016948, 2826418, 13976857, 7770545, 300411, 5159071,
      16665836, 10336522, 11958656, 1012786, 1177654, 932565, 4534004,
      5433914, 3265776, 971868, 1512508, 13649147, 6932453, 1999660,
      13538225, 5157605, 6084267, 8764784, 11348620, 1920235, 10920721,
      15982766, 7820863, 4897499, 4892968, 9484574, 11056375, 3544329,
      14413233, 4115020, 6308163, 10552819, 11676806, 11858903, 79187,
      13327084, 445961, 15975970, 5102703, 15647026, 5436004, 7464825,
      4968415, 314942, 8846409, 2635286, 13029661, 14757596, 15362027,
      16370076, 9261042, 9191528, 7382712, 163334, 16551090, 4537915,
      9342088, 12385824, 5330210, 3143210, 5940074, 4357768, 13664430,
      7207830, 8377427, 11867326, 8235021, 12549783, 2052036, 6673219,
      4387338, 6130069, 15583193, 8634858, 8633811, 7746397, 13943735,
      16455019, 5859223, 1633209, 4742136, 6483667, 6614731, 5580764, 301733,
      8477197, 8943243, 14317190, 8142515, 13464882, 5491931, 10343591,
      14064486, 6176223, 6883925, 10125190, 1280856, 13631019, 6211034,
      9447505, 2212618, 15192793, 9458214, 481862, 6694543, 8443446,
      13151004, 15403017, 10278500, 9429157, 4826881, 13482775, 3275794,
      5951119, 7527672, 16634424, 14665437, 3167066, 2400102, 8908632,
      12512258, 12733372, 4143281, 16470275, 645188, 7152681, 7400177,
      13266048, 5562828, 10913883, 8105763, 12413667, 3518592, 14350853,
      113759, 7319816, 13027980, 5943001, 16538826, 12998942, 1381410,
      6063411, 2603908, 2553543, 4228180, 3548460, 4280708, 8180010, 7189980,
      8361592, 9233564, 3119733, 16217487, 15802404, 6444606, 2482504,
      6798447, 13235230, 2058122, 5774432, 15100938, 14379548, 4132589,
      14635134, 13582574, 3648482, 10451467, 221194, 14444227, 8965602,
      6033283, 14731700, 11273582, 13713648, 8431585, 11315970, 8006115,
      4707655, 7891844, 16756852, 3637653, 6199825, 2299285, 11529540,
      15939771
    >>,
    \* random.seed(76)
    <<
      6216908, 7772175, 15941466, 6537117, 3356222, 15244041, 4982399,
      885265, 7014911, 14127811, 3981320, 4724988, 5056353, 12626629,
      14105676, 7351611, 8216132, 3876056, 1395539, 5614559, 14213166,
      5065684, 3815533, 5582808, 13240909, 8937062, 1013478, 127945,
      11057782, 6928412, 9901120, 15092890, 10181684, 13175802, 16461285,
      6450792, 12462298, 3966221, 5569707, 9096761, 7662752, 417034, 1069509,
      11132456, 10553509, 15385815, 6753990, 2549886, 1674400, 4115766,
      10648402, 15676206, 12822582, 10860349, 1471270, 12424428, 11946212,
      4999339, 11407740, 9697854, 1765533, 14523931, 12250101, 8615731,
      1753410, 239627, 332445, 3514066, 13468205, 13878343, 15113548,
      8376693, 8379203, 2914715, 16239923, 10241734, 10051229, 15741888,
      14795378, 6833530, 7468076, 9130645, 7332798, 3078406, 15560770,
      179551, 9548437, 10897694, 7974406, 6353264, 14825768, 3355964,
      12591722, 7644259, 13047158, 9881308, 6051371, 7227557, 15893302,
      2610060, 9395433, 10118308, 3060593, 10220532, 9859871, 16679799,
      9569864, 376498, 2268191, 9043931, 2089734, 10028633, 10223928, 325956,
      10055794, 2567261, 1555114, 8720869, 8737836, 6515718, 6317070,
      6326064, 12301056, 2016065, 11669325, 2510546, 746554, 16168731,
      9360131, 14370240, 915360, 8248536, 1090607, 12171591, 3676349, 709676,
      14904104, 11932685, 13211472, 11094203, 10414955, 13246609, 5115731,
      7490855, 12749220, 9815631, 1476282, 13961416, 8423636, 15892061,
      1442564, 13562325, 863644, 5385511, 16052531, 11276823, 5383210,
      1845016, 1674775, 13216188, 7230475, 15092039, 15255049, 15511739,
      11125639, 2063020, 1129470, 5974383, 7113625, 16158728, 16244153,
      14252316, 6778767, 8282435, 7505946, 5638286, 10338562, 6270191,
      15665564, 13324077, 13986178, 795947, 4837093, 6553337, 10551743,
      13636994, 8994810, 585175, 3847474, 5273366, 1982343, 12350652,
      3921596, 8133782, 3237028, 6890492, 5085815, 8852498, 13452624,
      5077679, 2637450, 15497968, 8613267, 5070392, 16741886, 12521536,
      13901432, 14100461, 7480122, 8416160, 89130, 3601248, 9106734,
      11785061, 11760890, 14123527, 10249825, 14416683, 12711520, 8363865,
      7268077, 12021173, 8287726, 8803287, 11474720, 12509377, 3612473,
      1667021, 6853594, 4907717, 11911862, 10969631, 7604091, 10582093,
      7902410, 1628914, 2043368, 2631691, 15634593, 3696306, 5057810,
      3253460, 12326918, 15976277, 8430529, 9288681, 12817603, 14689272
    >>,
    \* random.seed(77)
    <<
      13406931, 4240080, 5467797, 3310385, 4034811, 3240186, 13800197,
      15764914, 1930429, 4904399, 7989927, 15989416, 9359920, 16772159,
      10256466, 3989798, 2440606, 9326300, 10580561, 11091762, 8399006,
      40704, 14279404, 4696621, 475654, 14016110, 16058747, 8340794, 2897087,
      13294912, 13645836, 3208319, 8511331, 16739064, 14020613, 6518841,
      3068117, 5561463, 5393577, 1968106, 1462677, 9244038, 13064739,
      4368015, 8958500, 7879658, 3438931, 3784912, 3215989, 1205999, 1358098,
      14183347, 3357657, 11697585, 9396988, 15118816, 7342397, 9987824,
      11815538, 9038640, 1280081, 1675113, 14084252, 13445336, 16476640,
      11868122, 12410083, 3557389, 12467712, 5517626, 14256343, 1472463,
      1592562, 9678596, 7738296, 13880826, 1330955, 15382373, 13112539,
      13156481, 9025702, 16328354, 1786380, 4562123, 7461805, 10520474,
      13033242, 15430497, 9261929, 16360868, 2038096, 5895739, 15717782,
      8887272, 946129, 13894679, 14144964, 12948175, 16341334, 6779203,
      12600665, 9773012, 15869013, 10160148, 8908172, 4157482, 3676881,
      9607696, 7923692, 6755244, 12384093, 2321009, 12893471, 13486471,
      6447953, 214621, 15892087, 16522722, 588829, 876316, 8318350, 10611102,
      661982, 12513064, 6007110, 12753324, 16597707, 7261276, 1977995,
      4295628, 16536079, 8455959, 15185367, 9442544, 11547313, 8201954,
      938787, 10916127, 7910741, 13800878, 11609084, 10981000, 1597049,
      2473125, 5003554, 8911642, 1540567, 288060, 14151679, 8145692,
      15355510, 5921509, 15496496, 13678431, 12595666, 6970568, 9656686,
      11927, 1043513, 13323043, 8076942, 2456772, 12761229, 13903028,
      12683123, 15181074, 448407, 11760823, 137706, 4024952, 1479190,
      11182973, 15507865, 7822626, 1903469, 14496463, 6547452, 16348715,
      7984296, 1729928, 14827000, 14348107, 2275406, 4016090, 4387707,
      3522083, 12950808, 14052949, 1442154, 2709921, 2755636, 2502443,
      421015, 847599, 16076839, 14550056, 3914922, 11247755, 8413969,
      12912062, 6361326, 16222357, 16467589, 9673030, 11946242, 12284806,
      10084919, 7001414, 8212789, 8495820, 4493031, 10037212, 14079598,
      14854010, 1728987, 7909761, 10431832, 6962801, 4949996, 9075711,
      4634822, 4825698, 7612454, 14661537, 3172830, 307048, 9929363, 8162298,
      1186990, 598137, 315608, 12333270, 2371067, 148006, 1508956, 11050098,
      14734502, 1833568, 8563004, 3423028, 11387287, 1393930, 13070327,
      7133080, 2774084, 1820106, 15960936, 11142387
    >>,
    \* random.seed(78)
    <<
      13664675, 3148389, 1610997, 5036737, 15508763, 11153586, 12254449,
      14623184, 4317449, 12472158, 7171987, 15104685, 572880, 10997741,
      2471135, 14851084, 10929476, 6722829, 12955181, 11128141, 3165828,
      15475722, 11686798, 7904705, 6355706, 16363323, 9159146, 157726,
      13992200, 15434401, 3952965, 12131916, 2930123, 5828792, 7120454,
      5662048, 16403271, 10608203, 6822343, 11787535, 14115299, 3116796,
      2931160, 13078713, 12650455, 16078368, 14411806, 6046833, 6125010,
      903749, 3452019, 12969177, 1699369, 3272112, 2418332, 7821636, 4889065,
      2445559, 10001304, 10803526, 14665745, 8806411, 4312193, 11965387,
      15614303, 14140257, 2809574, 10490258, 8393157, 11222912, 12502419,
      11666098, 15129468, 6547054, 15305785, 15557496, 16005261, 12168253,
      1391369, 12168424, 14519855, 8511604, 26369, 1854817, 7692287,
      11336040, 6121307, 3817751, 7252552, 13262242, 1440584, 6899089,
      6860028, 3200248, 11373650, 14748806, 11239578, 2197061, 106323,
      9676313, 13353904, 6281632, 5267074, 13509292, 9054495, 9232681,
      5079853, 2038919, 11271701, 9262855, 8456306, 13524547, 14670564,
      10740275, 951158, 3465910, 6664262, 2641359, 16543509, 23790, 377716,
      15047996, 1808934, 7441699, 12084595, 6875902, 16444791, 2256804,
      1412920, 5032075, 3197261, 7560898, 11618966, 7819007, 8560717,
      6605747, 15549729, 7231850, 2111800, 1137312, 2186814, 13275826,
      3434638, 13794266, 7177171, 8082942, 4032147, 14722848, 8105211,
      1853077, 1499016, 3563300, 9716764, 450485, 5239258, 5488378, 3699427,
      14330844, 2470669, 14937094, 5290538, 14576506, 4992928, 15780970,
      16374298, 14510415, 11002501, 3726342, 14496193, 1822400, 8022091,
      2585672, 1541593, 9485818, 10550086, 484414, 12397433, 6798249,
      16520334, 15767441, 114358, 8244310, 616446, 5600188, 13206120,
      6555708, 3922566, 6390492, 231642, 6598122, 1217378, 8058469, 13543905,
      2842972, 9065119, 4964635, 15449996, 7427337, 13015625, 868698,
      8078745, 9678477, 5832348, 5992607, 5791600, 8342988, 2811134,
      11333620, 15510903, 2415843, 6840356, 6171635, 7939900, 8821034,
      6840809, 832050, 9156136, 2206115, 14324847, 10594698, 10879036,
      1248950, 8246784, 9174150, 11355158, 8977628, 12907249, 5572496,
      10226834, 7623706, 8915498, 5303768, 3210888, 2512521, 2528999,
      6167076, 11163082, 2380557, 12010026, 1124640, 13993636, 13958768,
      4436806, 6127754, 7078402, 642553, 130863, 10609802
    >>,
    \* random.seed(79)
    <<
      2438336, 7340086, 5863825, 9996812, 2733609, 4041806, 4125403,
      12141977, 11616221, 8295807, 2600815, 1109953, 5887442, 498880,
      3364576, 1843755, 16347878, 12176240, 8238884, 12036138, 5185092,
      2897600, 6878293, 8073496, 13892477, 11550000, 6171060, 10377178,
      13718541, 1543017, 6411008, 1783933, 4357286, 13081996, 15151051,
      8154458, 688578, 11877780, 15306127, 11646184, 5567632, 12061544,
      12414969, 16497260, 7643165, 12575534, 1321960, 15143083, 1027323,
      7677690, 1637632, 10514189, 1917866, 4030403, 3114315, 6745966,
      4550628, 5801426, 3675189, 16687937, 11719800, 5363535, 7825479,
      4489886, 2950346, 1065892, 552887, 9798071, 11089339, 11792487,
      9248204, 6117877, 15537679, 803323, 2474013, 5285792, 3491643,
      14929800, 15706274, 11625011, 4574824, 5740274, 15533874, 12963893,
      16751666, 379150, 8903019, 13451499, 12069841, 10636306, 2648629,
      16326267, 14043675, 8407811, 10365158, 16663987, 8684953, 10577786,
      363277, 10248768, 11510850, 13211880, 9190215, 15185869, 6080764,
      280177, 15421059, 13697627, 16314178, 16105788, 12621987, 7172365,
      2056770, 10929602, 16468988, 15173967, 198119, 124261, 12016350,
      12350474, 12045387, 3856880, 6748987, 11398211, 7357050, 8256767,
      3863872, 3416056, 6167053, 13547886, 4162347, 14284039, 12410821,
      9260627, 9424046, 3480408, 12559515, 15066652, 12145977, 2378206,
      7938485, 1482696, 9036012, 13992924, 866482, 15960044, 6050645,
      13525355, 9221662, 2463016, 8218533, 9740782, 16594015, 1177922,
      2907542, 13714119, 9446769, 11286056, 7880355, 11693558, 3302930,
      2078443, 13825721, 2123846, 4750955, 7232325, 4412999, 7581303,
      12401968, 15979636, 4044241, 3159309, 15488834, 11135537, 4264723,
      4214686, 3961933, 2977198, 1815058, 782953, 9895543, 4447689, 8330677,
      43599, 13083846, 1937359, 16656168, 12474817, 85905, 11793910, 6561844,
      11375599, 11875753, 11165457, 5190373, 11970329, 15020721, 11630333,
      5968743, 5380238, 6308185, 13642858, 9043030, 4610357, 13592071,
      5186078, 8466248, 12680943, 4873213, 5060970, 13157181, 2116233,
      15130677, 16715443, 5537050, 12537209, 4488552, 12582722, 2541848,
      2530108, 12025958, 14827462, 14499922, 3739361, 8871307, 1696249,
      15691957, 11817834, 6304426, 13558259, 10125953, 14400630, 12841452,
      15855815, 8714292, 5852512, 8995144, 14704552, 2332956, 9454366,
      8004505, 13587582, 10517817, 7603720, 11036443, 9067035, 12585386,
      13841938
    >>,
    \* random.seed(80)
    <<
      4554865, 6609226, 9091683, 15075618, 11880455, 14477032, 16082567,
      7059757, 6192112, 6126010, 8938759, 6732455, 6286796, 417249, 9228984,
      12778538, 14118194, 15965975, 16656524, 6431117, 15578328, 3691405,
      15742205, 10368653, 912508, 6529204, 4048353, 2843890, 15871532,
      8882566, 9443371, 251668, 2428352, 7574380, 10423147, 2188724,
      15694085, 2667640, 3879659, 6272939, 5928067, 9942416, 2902748,
      10606199, 16391793, 16257337, 3421194, 4539269, 4336901, 16738614,
      1326091, 5342765, 1702057, 11033264, 266256, 12530634, 66721, 2517569,
      8848630, 4883581, 4995217, 15615931, 6169610, 10408230, 9718417,
      418507, 5281916, 8387532, 12440351, 1715353, 4084731, 10636273,
      8338734, 9135727, 6201027, 8523995, 12425958, 881027, 7567824, 3363968,
      4659780, 5254210, 15604760, 8069088, 13099724, 11230941, 5813318,
      11536310, 11319111, 133240, 8449018, 14702887, 684877, 6478522,
      3554677, 2086994, 11011329, 1818776, 193119, 2769600, 651855, 10132883,
      4483318, 5926866, 8065746, 11679403, 40884, 9194411, 16418156, 1358817,
      16595587, 5729240, 13047529, 7720617, 14342509, 15400645, 15285466,
      2117848, 14199821, 8113013, 7037056, 2191491, 2647332, 3666775,
      7327923, 6308531, 10822561, 2433411, 14119620, 16270902, 12762746,
      1651774, 1224488, 14147110, 2530079, 16530444, 6651952, 12724356,
      4356325, 8508472, 5699730, 5010246, 13242367, 13808011, 8935222,
      13403944, 10866125, 9180417, 16706338, 15525507, 7753591, 3196832,
      9794005, 16593590, 16592792, 2857416, 9489773, 9273158, 13562621,
      5749119, 12875179, 14594880, 7209764, 9339385, 4670241, 2016581,
      9519069, 404708, 4906551, 6134250, 6484255, 6883345, 162609, 4099269,
      16300559, 11934298, 15993052, 13734616, 1203998, 5790872, 3465417,
      9429023, 4687015, 4430241, 5387601, 10358486, 4949812, 15329158,
      5880300, 14769855, 9987946, 14494755, 2761160, 16437377, 2021854,
      3553463, 11979757, 2520798, 3122289, 15855440, 13289216, 13718461,
      2909966, 10854743, 16513230, 14637657, 1855107, 13166748, 7843403,
      4470577, 14401302, 16229342, 13772961, 353586, 13165017, 16605867,
      11828210, 11637067, 15581996, 8250311, 3129872, 16494167, 14273250,
      1888865, 15631210, 15382448, 1622295, 3314168, 10102516, 11246907,
      14600985, 10502064, 14643418, 804910, 16536386, 3309067, 4596126,
      5588767, 11866563, 12695231, 5399305, 1141202, 5617366, 15188956,
      15023667, 2631808, 3876569, 16074898
    >>,
    \* random.seed(81)
    <<
      8488271, 14086529, 7604855, 5672172, 9361197, 8917614, 6446156,
      8035005, 14000941, 291112, 2674435, 2497293, 7555412, 11288323,
      12799863, 14136687, 10168560, 24040, 15198022, 5320900, 4843219,
      12088716, 6004399, 3717707, 5112694, 11451263, 2218588, 10121147,
      1263913, 3551886, 8622296, 12588733, 4998066, 14683778, 9728475,
      9379397, 16123677, 3015223, 16688425, 14402060, 13063130, 12050160,
      5553872, 3101648, 6440952, 14924858, 15076204, 12947966, 3924583,
      10910694, 13823890, 7523984, 4116299, 11691489, 7514089, 299580,
      9352341, 15334474, 16100077, 12009924, 12273366, 15631311, 14084310,
      7265568, 5860962, 4885631, 5860165, 12423779, 14595216, 4599806,
      9817533, 5835883, 12071546, 13064890, 1647694, 2737674, 1039501,
      16293516, 7171726, 11133290, 5151760, 14669688, 4464797, 14564260,
      13687604, 3045495, 15433203, 14419903, 3762777, 7758263, 1683226,
      3799694, 3168793, 1917555, 3090357, 10467467, 12145392, 5005512,
      6405145, 14274064, 16418202, 608223, 313097, 6562710, 8980493, 2901019,
      2231394, 2045593, 14243976, 15281288, 6396379, 6524612, 4037522,
      601831, 9781161, 5874607, 14641079, 15593329, 256704, 11566964,
      3865659, 6217326, 15148181, 7602636, 7049680, 5128523, 1615360,
      7016443, 15623594, 12020966, 15887067, 582595, 7159422, 13717220,
      3286653, 1630777, 447475, 8836604, 12460342, 11137990, 12940776,
      12691603, 12374643, 7927377, 11597286, 3189335, 5928375, 14337797,
      4821706, 14860150, 9644626, 9527543, 13313004, 313122, 7894430,
      14205412, 8643662, 15222017, 6522010, 8514074, 13797538, 5609968,
      16046844, 3147063, 4602157, 14456271, 16104186, 15005705, 13638032,
      15410325, 6781552, 15641255, 4249015, 7209131, 11486976, 12909953,
      9103684, 12716979, 9913778, 2391982, 16673154, 14714899, 16457943,
      9778810, 11800922, 692385, 8697528, 700880, 2795085, 12047644, 1262861,
      4104559, 13764209, 15838486, 4287509, 925186, 11434448, 12890903,
      5101662, 8614133, 3599596, 2707195, 11473153, 7481671, 2878464,
      12204261, 1181429, 3932859, 16703169, 9681793, 6694123, 5217491,
      6049662, 11546544, 13246768, 14952378, 3541983, 16710276, 13319130,
      3829421, 3901356, 5583433, 12190970, 5792539, 12612794, 8587251,
      1821088, 5166110, 6426544, 12647442, 14204381, 5150407, 8242006,
      1466064, 7251893, 2033997, 1114670, 10879082, 2601367, 6222035,
      15879563, 3559814, 16595901, 4283414, 8725269, 9566583, 11127871,
      7653510
    >>,
    \* random.seed(82)
    <<
      2428007, 12908312, 8219113, 16499119, 8474174, 4901098, 16254587,
      13833917, 13622885, 3013174, 13256810, 2801516, 11409257, 4372820,
      2627096, 12801928, 15319690, 559885, 7272639, 7911489, 9777021,
      14084102, 1668920, 3318264, 5153524, 9401743, 14122686, 2265950,
      2084994, 8082524, 1431489, 10534003, 5463383, 13580570, 5861320,
      12952336, 8241270, 1462013, 8131332, 16266714, 3047172, 14049891,
      29001, 4061422, 5992919, 11829411, 5089672, 451551, 9038940, 6190242,
      9399270, 13360694, 12003346, 13674903, 7401940, 6980357, 6446910,
      4859504, 10844532, 6593915, 15210687, 16210035, 11106247, 4245560,
      446486, 5936099, 5015890, 1887465, 16168691, 11590480, 16166860,
      4110683, 5007783, 767248, 3572236, 13523955, 86923, 5975807, 2073467,
      11408920, 1209874, 10148166, 16479177, 11714890, 15879453, 16032786,
      5656706, 16739533, 447779, 6770430, 15367039, 11107261, 10413519,
      6930990, 15165792, 42280, 5049113, 5957888, 14435337, 9414314,
      13494756, 3307629, 11270816, 13195930, 11236625, 1567978, 11772312,
      14651064, 7728522, 7168400, 15999996, 418703, 1672374, 8731023,
      6834703, 12248432, 6208836, 8501468, 8115271, 1295581, 14094014,
      5719453, 1259844, 11297689, 6950492, 13728669, 7481743, 6597320,
      6324879, 5909209, 10270832, 755160, 11710821, 10673882, 10506031,
      10947684, 8475079, 8103308, 6148470, 16063413, 16590218, 15564732,
      13673418, 4074089, 11148665, 8456766, 1391966, 785619, 6537432,
      7444579, 11644869, 5704453, 3172661, 2942602, 7179202, 11416218,
      7286953, 8419080, 2341775, 10625772, 14123483, 5807562, 14902091,
      16126612, 4685272, 11446952, 2717716, 3294118, 4314180, 7722703,
      12006274, 12595565, 3677632, 14126620, 12410760, 6558337, 15295850,
      2480387, 1520430, 4167540, 11634591, 1460403, 11713912, 13544071,
      10412185, 5576798, 10973517, 8183876, 4849893, 10811311, 2345386,
      9267509, 15313472, 5555196, 3090551, 16180994, 15335680, 13912810,
      13453050, 7354336, 6536372, 9892076, 8121390, 15781710, 4829770,
      15849458, 3867215, 1924171, 13546431, 11691126, 1281451, 11638480,
      3472694, 11684856, 16324440, 4275428, 5977130, 8391303, 9869236,
      1036799, 10376110, 14446890, 11528499, 3091008, 14118004, 13300595,
      13381994, 2406304, 4823529, 671298, 5728254, 11759089, 16635411,
      16273843, 15255840, 4718450, 7217577, 15729561, 4796739, 11646671,
      6591716, 16711204, 13798769, 7253039, 3821157, 6581728, 677508, 410575
    >>,
    \* random.seed(83)
    <<
      8324119, 14156507, 14374115, 7716177, 1488042, 2149366, 6348868,
      577126, 824790, 15974560, 10901716, 3560349, 3174011, 2916513, 5183417,
      1387777, 13734658, 16392990, 916324, 6889171, 2575955, 5919957,
      5055148, 9407767, 13616109, 3391923, 7976586, 13188089, 10505095,
      11864694, 15114831, 15572702, 3855933, 13779273, 7479991, 16196650,
      2797772, 744380, 13112787, 511225, 333143, 16231430, 12698711, 7827749,
      5858265, 6485100, 9632479, 12139414, 3127602, 9233295, 15632322,
      14651957, 5321428, 8006892, 7628115, 13363074, 15744105, 14610655,
      10004275, 14217651, 5392946, 7393485, 3860733, 2281566, 15278659,
      12616290, 12038728, 6835163, 10546587, 8563350, 9302873, 3118972,
      15464390, 9548501, 2139341, 212851, 6192987, 7420547, 13634109,
      3164706, 11020236, 7499335, 10411227, 588161, 11024895, 2062368,
      7926812, 9919427, 9383586, 15240515, 7200725, 2459274, 15906437,
      3542152, 4570019, 16401156, 4301929, 1639900, 5276963, 1268312,
      2655491, 1780708, 10324489, 6930408, 9701270, 10071295, 1147618,
      3050334, 4218303, 13507143, 14822252, 7827064, 4521997, 5372282,
      11243644, 11048228, 6929794, 8343199, 2701519, 9544699, 16298363,
      5714662, 10626074, 9747053, 4177871, 9218408, 9716839, 10775734,
      4988606, 10058001, 13295352, 14323454, 362230, 8462875, 7298477,
      7515749, 10604220, 6627325, 12339807, 11261287, 1738110, 15217449,
      857842, 14618605, 7621391, 1868659, 9904031, 11924831, 7769772,
      2726738, 991981, 8047028, 4484783, 7986920, 11803111, 1279462, 8759862,
      6633737, 15841346, 11292340, 867453, 7287634, 10337724, 2387421,
      9867730, 11661123, 7476220, 6357388, 1080571, 4885348, 6339040,
      13636061, 5302159, 6375903, 2775232, 3789553, 14019385, 14849601,
      1560292, 15548345, 628314, 10550246, 15108827, 1821311, 15982248,
      8572382, 10844338, 12072036, 8517483, 15719097, 11978138, 16106606,
      901574, 14963227, 4287721, 801517, 8236163, 7307908, 1943001, 12345928,
      14858434, 1021764, 9867971, 9435942, 3944477, 15484970, 10176965,
      7059917, 14104502, 7010644, 10868900, 15966152, 14842504, 1677651,
      12931126, 1089555, 9222860, 4732316, 15322614, 9204379, 14789959,
      13215273, 4772870, 7866002, 3599349, 8461432, 2575195, 4142025,
      11985932, 7379062, 13564235, 7190610, 9007503, 3702453, 16590568,
      1812948, 5657450, 12313566, 3827575, 16437384, 5934393, 14204276,
      11521176, 7469051, 7469046, 9943132, 15486781, 12109550
    >>,
    \* random.seed(84)
    <<
      12273055, 4757818, 15335412, 13000729, 626292, 8206307, 73677, 8752756,
      16667327, 11096381, 5343851, 13977285, 3298946, 7722764, 8367206,
      14330242, 9251689, 12654864, 12402988, 6153259, 10210654, 2521259,
      9141942, 15887957, 12685253, 12034016, 4384304, 8818521, 7841322,
      6687427, 14948523, 15017574, 12173936, 5539838, 10117358, 3682083,
      2109976, 11075694, 15746935, 7942334, 735019, 8602228, 13603197,
      739434, 2506404, 782076, 8383436, 8866907, 11527613, 4893618, 8988292,
      1806454, 197681, 4051461, 3396050, 15164660, 7088080, 2276691, 4908294,
      11805112, 1888630, 4558091, 2030414, 15209386, 12267351, 1715707,
      9129425, 1229214, 7806183, 9257464, 493401, 2455678, 12787073,
      13001092, 16608919, 13108858, 12213315, 11887481, 8069589, 419119,
      11937056, 10118961, 10553618, 10942461, 2275765, 14793524, 9203724,
      9991790, 10331332, 15526500, 3187716, 2638401, 4432668, 3110044,
      5346003, 14764455, 6175975, 9023169, 5173986, 2531422, 16066249,
      13561633, 14823380, 16450238, 8198756, 7091734, 2894582, 9367744,
      15459482, 10853574, 14232174, 10565572, 280901, 14675497, 13651693,
      1305627, 217188, 7978360, 14296448, 3713522, 9973462, 4286460,
      15551077, 1456621, 10668848, 13910708, 2426496, 7313368, 8844947,
      10826721, 14911665, 6459179, 6549224, 10879164, 10394292, 4528900,
      5941539, 16773833, 11160210, 10994790, 5873084, 13878074, 4543466,
      1724964, 89488, 13307288, 15448005, 4788495, 10196578, 5904090,
      14951457, 15187466, 11626067, 9293763, 5173929, 9911294, 1182433,
      9528758, 16340843, 3709117, 15340818, 11930097, 15159585, 13706833,
      6316104, 9604102, 9899706, 4523223, 12597347, 12816634, 5503342,
      11456879, 4421158, 8593742, 4360921, 14676688, 8375037, 38982, 6769849,
      178829, 14540510, 4614833, 13754325, 1814145, 2256228, 3707985,
      4868097, 12061562, 7621005, 2965868, 16007885, 8047780, 14031383,
      4025735, 7365564, 10445336, 13838190, 4413454, 2086562, 1489570,
      1279367, 16509944, 15232444, 9175499, 2980681, 2226731, 13869538,
      4024048, 15306760, 5300325, 7191120, 2891751, 5753573, 10283476,
      677930, 10904210, 523277, 14488094, 15840598, 9496059, 14608611,
      8279868, 1836381, 7156015, 6106913, 3629633, 11211270, 3146962,
      6008597, 5793229, 324253, 15562919, 15713987, 7786018, 9225671, 36738,
      4700067, 12338406, 15123333, 2054354, 5735094, 1696802, 16671468, 8403,
      11344329, 10044028, 15566981, 12534261
    >>,
    \* random.seed(85)
    <<
      3348542, 11765970, 10318870, 13759338, 1797013, 5383354, 15186364,
      15863385, 3222512, 3733287, 7738006, 13041895, 12939209, 14204763,
      15232038, 5807615, 9768001, 3732701, 11429009, 6317602, 8998980,
      14250625, 14198436, 9011369, 3767878, 13036355, 11476751, 9831629,
      10088062, 9585008, 7817135, 10199920, 7225893, 2010533, 90416,
      11462599, 9435532, 1212493, 7228768, 7866276, 10391055, 11461916,
      7591584, 13085880, 15490545, 8069029, 11476038, 3799641, 10841327,
      14563576, 3698330, 2130434, 6987560, 11536644, 15868638, 1840992,
      5873475, 15877250, 2731494, 189911, 6409042, 9488170, 2414341, 8411487,
      13897296, 15469906, 11275089, 9218865, 3845937, 685177, 15830249,
      14413874, 7676421, 11965675, 5605203, 16019869, 14865340, 12909903,
      2679349, 966046, 4394621, 1742212, 6978121, 2654116, 14495257, 2913718,
      6078215, 7189289, 9333134, 12833749, 2806319, 16081708, 4159207,
      4159422, 6064771, 11069949, 12009222, 15995633, 13683372, 2962689,
      13047732, 4641317, 2462494, 7967136, 7565419, 1710938, 2653969, 955674,
      12373283, 4512301, 5286295, 3377125, 16282511, 3017622, 13842677,
      10889528, 14810098, 334223, 5801175, 6423135, 16017789, 9420546,
      12987402, 9049099, 2303494, 2939318, 16213480, 2133462, 2162224,
      14667420, 16635548, 10111878, 4958823, 6193650, 4388529, 3018097,
      8942595, 4359686, 669948, 6672699, 12430673, 11050027, 12484368,
      12999098, 1228803, 16235028, 12797890, 9763899, 8500316, 2581127,
      8430048, 8602584, 8993236, 8880542, 12281103, 16299749, 16557025,
      11862377, 10160788, 4574929, 3790937, 9564203, 12142899, 11426411,
      7264311, 12324511, 7433625, 15654226, 5754139, 10305503, 10611618,
      10959923, 4193740, 3673216, 13781139, 11715691, 7049223, 10449901,
      11165858, 8117285, 4922292, 4157718, 5232482, 8004755, 11419142,
      14411111, 5855449, 15075837, 8520772, 8345785, 2388867, 7896022,
      11328393, 4305530, 7751432, 3556172, 2720629, 3270121, 8380912,
      5504911, 3328496, 5703289, 1150890, 14587286, 4013058, 10115617,
      3272440, 9930255, 5315119, 2092306, 712361, 10139966, 15595661,
      15677544, 13775518, 351426, 11374474, 2252796, 13159774, 9511154,
      6906685, 15964381, 1467539, 1039357, 445084, 3135602, 6580417, 4320522,
      15671786, 9223222, 8290519, 1193135, 12068700, 349208, 13376800, 54934,
      2690077, 9621316, 16335310, 1395792, 14793082, 14632305, 4593854,
      2487434, 912955, 344327, 15628599, 3551211
    >>,
    \* random.seed(86)
    <<
      13279601, 13049678, 520659, 9331493, 14054977, 16637482, 5326426,
      12468084, 201631, 12895988, 1169037, 11873350, 8426076, 12422280,
      10596348, 5095194, 13780435, 12105373, 13708699, 6348802, 1721703,
      14817817, 14491826, 8480329, 1607251, 16572415, 13751354, 6862340,
      7724841, 5254, 9745572, 12877234, 12742092, 3566086, 3497262, 6144829,
      1043639, 13137596, 14851079, 14624995, 2890956, 6647008, 4779516,
      15003094, 1413805, 7939514, 6617546, 1460572, 4931290, 16610568,
      8045900, 2320916, 15829950, 13642539, 8290249, 6231975, 7177512,
      7172132, 12777377, 6372307, 11551138, 3370430, 3414600, 11970784,
      14164167, 698264, 13306650, 6681492, 4315130, 5326845, 8784946,
      12402671, 10876813, 6260360, 6141096, 12626762, 11330239, 6509006,
      10287190, 6904189, 7303189, 9922728, 13043600, 4260913, 2763214,
      10209027, 11811974, 14655625, 13097596, 8279542, 11213347, 8883482,
      15126920, 12027071, 13455819, 16657222, 7574767, 7069921, 926972,
      15958236, 1707475, 12445969, 236000, 15426969, 3012750, 1618521,
      13122987, 6368052, 15367874, 8137507, 13797548, 14451990, 15324982,
      3738475, 9035091, 12051881, 13687618, 12645942, 10853144, 197242,
      16302275, 9115551, 905693, 12899517, 13494424, 612429, 5549366,
      7650726, 4031668, 7435199, 13516390, 879747, 8609910, 5176943,
      12951713, 3129296, 5523621, 12259091, 6351154, 8016767, 12057898,
      15345588, 11293914, 3743001, 8752659, 10030478, 8906450, 10583905,
      12115220, 7015945, 11990803, 8809868, 11790389, 3047586, 12979953,
      5737570, 652901, 12045142, 15662835, 12089743, 5055780, 9783786,
      13932123, 1532965, 5428240, 4397168, 12878619, 219342, 4285309,
      4211847, 6106593, 13039705, 3704886, 7776395, 4862464, 9784879,
      5156784, 9226620, 7290172, 7707169, 5627252, 14798065, 7151202, 671201,
      14898252, 1109308, 3210582, 3015345, 1242869, 15936562, 16228249,
      6862047, 484999, 13722295, 4663350, 12464910, 885276, 6883463,
      12971741, 10672534, 6956108, 7006625, 16410240, 14279652, 4220393,
      15325319, 9628602, 11016506, 3742488, 13782992, 9930561, 4565241,
      11476586, 12922923, 2244542, 8229537, 895158, 8856321, 9299529,
      4771219, 6675802, 2511991, 3579398, 3364175, 9659413, 6203147,
      12762412, 2743564, 12603538, 13249228, 6125992, 728537, 6619206,
      13625302, 15497272, 9346102, 726564, 485701, 1727395, 1323321, 7367633,
      14102097, 16756683, 13070476, 12470503, 4331171, 8770576, 10563274
    >>,
    \* random.seed(87)
    <<
      2448715, 12380160, 3173835, 14682166, 14077887, 13643720, 9068869,
      1714425, 4712073, 12652350, 5627630, 10816412, 9115180, 11832232,
      5499099, 14777748, 11910138, 15236921, 2054155, 15026431, 6101582,
      256304, 4632242, 6466242, 12664385, 1502030, 14029854, 8333905,
      8623068, 10333054, 14973203, 11762082, 1167431, 12769821, 11310684,
      3371293, 4201014, 15817817, 3145031, 11740197, 9334325, 15973594,
      1366816, 5128224, 476956, 11693522, 4677454, 7021996, 9990881,
      12139379, 10967704, 15322849, 13630759, 7271904, 5442031, 16558663,
      10951125, 12467450, 16369606, 11039243, 16013486, 7563885, 3469906,
      11442357, 5823478, 14100451, 3275517, 13979552, 9990012, 11267497,
      8053732, 13670796, 9671847, 9708144, 4951166, 597988, 15576460,
      5047924, 1761240, 4797573, 16627566, 15999478, 13986157, 5760984,
      12639359, 262478, 10550191, 9778284, 16111451, 4422796, 7939368,
      9984373, 16023976, 13688653, 15847303, 923844, 1016904, 15289158,
      8949557, 14362954, 1945468, 13223912, 11960550, 13458343, 1022785,
      5149739, 15790685, 8153989, 3345048, 10538082, 7203920, 4668038,
      302827, 13443105, 9294510, 5337005, 12932426, 14424082, 15097621,
      14976301, 2142533, 6412201, 4812480, 5072506, 6538700, 13861567,
      3926292, 9588526, 3867382, 14388363, 5851929, 4111388, 10973269,
      5593942, 3233422, 16545209, 16378693, 1895971, 715321, 4265507,
      4937149, 10983246, 11455572, 6180783, 3663941, 3770444, 9079286,
      14707729, 7137482, 13121808, 5112777, 2558643, 6944369, 8584156,
      4185879, 15531677, 10231916, 10470856, 5515343, 16441146, 638477,
      11397244, 12836970, 11310838, 3502895, 15513045, 5895188, 2409683,
      503321, 15832324, 10038924, 10461498, 221218, 2148212, 8729034,
      15274821, 15065924, 22615, 625801, 8345915, 3457872, 5852848, 13256888,
      5211989, 3746420, 9128984, 15471150, 6058859, 9673685, 731520, 6256831,
      7316552, 5546351, 911420, 3134485, 10059503, 13777637, 10938133,
      5444087, 10615630, 2816353, 6959944, 3302788, 12391279, 7103646,
      10756963, 5004011, 14710028, 5878320, 10881060, 12818434, 15695356,
      7932752, 2679077, 12550601, 2580298, 4847393, 6714336, 14416030,
      4548067, 11264309, 3195783, 9915447, 12374956, 8305901, 4243146,
      12513191, 10602766, 2959285, 1953888, 4697550, 1902709, 9327214,
      7793964, 1058143, 13796689, 9748644, 5773482, 7224322, 14412114,
      1713616, 12112548, 4661461, 13031232, 1384268, 15194833, 1480645,
      8254057
    >>,
    \* random.seed(88)
    <<
      6668756, 16336356, 3179476, 5583592, 15140419, 3103463, 10494775,
      241791, 8836087, 12892295, 11689134, 131099, 14302261, 5727397,
      11509642, 7784284, 2273425, 3759798, 16638645, 15972903, 2053010,
      11547944, 2359127, 10095014, 2907822, 7411842, 6882018, 5430454,
      11237862, 7313027, 2340249, 5125482, 2748714, 2011062, 7791939,
      13841071, 14450774, 5657997, 1012070, 2562838, 15141963, 15894582,
      4151642, 7435626, 14747521, 3337508, 3680402, 2965093, 15431753,
      250951, 16571963, 3947471, 16372642, 15910222, 10866232, 8790525,
      15972807, 7610895, 13150813, 8849732, 420026, 13679901, 8349359,
      11833946, 6342050, 8586405, 6460287, 7918012, 8409399, 1134672,
      8235864, 2464679, 6415707, 229260, 2326476, 2118207, 7187942, 14701977,
      5219714, 12044752, 14302565, 10847735, 347238, 14850268, 2229140,
      1744075, 9296576, 8664411, 1430777, 6460915, 4795088, 5662319,
      11866644, 3632016, 16370464, 7291486, 6130805, 8591366, 413558,
      14383943, 7794902, 11842367, 6017882, 9572303, 5492809, 10122917,
      10457385, 10180588, 6521116, 2654240, 5818787, 5230198, 11527770,
      7205747, 8713910, 12671805, 9583793, 13114640, 5631430, 6919147,
      7980496, 745616, 10564953, 5020396, 16107228, 7278470, 13412435,
      3747073, 15548190, 6913275, 13790811, 5890039, 578127, 854801, 5406072,
      16474351, 4041649, 8628305, 7546596, 11678329, 12913930, 13138392,
      11873422, 4740027, 1357534, 9314259, 885644, 12455818, 5206249,
      2368197, 531211, 5925738, 9381160, 14962503, 3358027, 15629040,
      16562834, 12704691, 11114613, 3705737, 12545117, 286925, 7319558,
      16697806, 7924692, 15249885, 2285688, 10741436, 6453530, 768432,
      16301199, 16422763, 16132928, 15866518, 12294990, 8642194, 11389950,
      11537002, 2272674, 12452774, 16653166, 13050872, 14997117, 8101565,
      5038929, 11382427, 10313895, 10386377, 4734364, 1509024, 14889070,
      11674959, 4719766, 8870604, 14762044, 9443285, 15371214, 7375518,
      3184851, 4500716, 12474485, 34596, 715579, 14571407, 5469372, 2786769,
      3347569, 11571027, 6549978, 15244916, 10151610, 12737658, 3040492,
      7973115, 8876476, 12476215, 6695193, 9669619, 11579324, 13819280,
      11734416, 6464609, 4137702, 11500154, 14539590, 10959467, 590659,
      5038443, 15426064, 16629167, 6139859, 16647339, 5269100, 16613254,
      14788049, 6716962, 6042769, 6195584, 7428729, 6584322, 11548041,
      10681212, 6746127, 14529187, 13581968, 9149577, 5591542, 10055729
    >>,
    \* random.seed(89)
    <<
      1360475, 12882012, 10180461, 11798237, 16739095, 4341902, 2358654,
      5776087, 14298987, 1085143, 2509414, 14211285, 6979680, 5610811,
      15030815, 3527457, 5028060, 11638327, 11430914, 5608963, 1284524,
      9569685, 14435761, 2861416, 7846438, 10390208, 61613, 3744412, 2437289,
      9800015, 7740591, 14314545, 13180740, 896284, 9369184, 5437944,
      16345391, 12212418, 1526321, 1180287, 6919073, 7979926, 1387367,
      6797218, 14044431, 4657826, 12386021, 5632448, 16630313, 2305558,
      99156, 356095, 14850470, 16315198, 2428602, 8396079, 3769756, 11785468,
      1557852, 2447284, 5745835, 105642, 13225425, 10663133, 5853723,
      10261691, 9431511, 2683557, 12088273, 11355319, 14060060, 5223833,
      9364503, 2909200, 9039036, 8131983, 6683048, 16626490, 12612863,
      11151253, 7901725, 5746653, 16268410, 9319409, 15522500, 8780460,
      4832224, 11155037, 16524343, 3458980, 15487335, 14328552, 9370873,
      14631002, 15125383, 8497819, 5239097, 14973768, 8613195, 10961882,
      10232062, 13603472, 4008154, 10613276, 13481659, 9613590, 12765744,
      10066000, 5989863, 7322301, 4450683, 2766975, 13475234, 8458117,
      5083558, 11064354, 4061636, 6165422, 9175464, 9369819, 765993, 7569138,
      2244093, 15198392, 5197368, 5063179, 9755888, 9764912, 14675317,
      4914432, 1169666, 9303233, 15074421, 11657295, 7183434, 16021415,
      3153097, 7282517, 10039880, 14570115, 12099043, 7352426, 11552818,
      10929732, 793384, 10700949, 14399304, 12160854, 2116101, 16055010,
      3982786, 16746659, 5227265, 12955591, 15943931, 7767296, 13848871,
      83560, 8794019, 14786673, 1032786, 7431066, 3610115, 15898855, 4240900,
      14936386, 6388746, 10748251, 14303202, 5563928, 1043298, 10638219,
      12561826, 4302446, 13743781, 10418417, 1985471, 6961772, 99618,
      13531689, 15303784, 9450018, 15852407, 1748537, 14915400, 8524226,
      12146112, 8436204, 6301566, 831151, 1447274, 2318261, 2559087, 4590594,
      13469545, 14962085, 16554998, 10168670, 487209, 10344481, 13267774,
      7332643, 4262592, 4100654, 3494572, 2253603, 9817075, 13035323,
      15749000, 15244536, 9766262, 12743963, 14354964, 823429, 651427,
      11574824, 302337, 4649254, 5477144, 6557193, 6860259, 4874285, 7187777,
      15902740, 7886049, 7384728, 15780627, 2176100, 5225464, 7081324,
      667774, 11287103, 5479380, 14482843, 16351710, 8659786, 14682667,
      11615322, 1670859, 14885779, 7026247, 8005533, 7619149, 8637939,
      2719516, 15774107, 3651181, 14770523
    >>,
    \* random.seed(90)
    <<
      3417023, 11972171, 1555137, 8070321, 11064238, 9640271, 9833619,
      5197582, 10643620, 14871850, 5953343, 13505254, 7570967, 9668883,
      14904364, 16267462, 13722404, 5144778, 4441386, 8193492, 4577329,
      6203481, 1246209, 9174425, 12273342, 2414541, 688597, 16408472,
      11392702, 10652433, 15970888, 16596602, 14206560, 6397747, 6252137,
      7713165, 13574365, 1777640, 2205464, 9157747, 12913400, 8839164,
      3030826, 911221, 11397736, 1291585, 414554, 2032145, 8469297, 4842065,
      15558228, 12916362, 3570410, 2076874, 1725018, 11093112, 7115262,
      1253744, 134316, 63263, 1393609, 4088396, 10925146, 2692829, 16520732,
      13257157, 16315377, 468243, 13588669, 9205892, 7300486, 8458592,
      13143034, 15680459, 12393405, 16587886, 12872904, 1087261, 8012336,
      5392304, 12563993, 16680129, 5663120, 9597386, 4614943, 14202299,
      2952322, 10120757, 6244475, 5226875, 7367418, 15222357, 5359245,
      11165409, 14679924, 15847480, 8928015, 9573358, 7110360, 8381541,
      16123678, 8971529, 14853976, 15918547, 949922, 8336864, 5745430,
      9337611, 11595263, 8364337, 7195306, 15547067, 16106576, 9165523,
      12187043, 3015407, 15617146, 14166389, 11374531, 4368584, 3273342,
      5049082, 944028, 9801306, 6757772, 8017164, 2704171, 1938228, 9353235,
      2600747, 12886524, 9417386, 9377809, 15119524, 11861987, 15014748,
      2155265, 13064812, 16654478, 3784115, 16670396, 9370131, 5052423,
      11308394, 11371810, 3438230, 11472215, 2990951, 10627554, 5864045,
      4840708, 4555910, 6378382, 2014902, 5967700, 881275, 5061458, 8375717,
      14635421, 10536584, 11592389, 15967898, 10688051, 10151385, 82871,
      6964379, 2037385, 9467980, 8229019, 11468223, 12402160, 16558932,
      6652291, 2187950, 13253716, 386841, 2600201, 13269574, 12124656,
      6825414, 15838256, 9640360, 14082142, 10328210, 11781971, 8496853,
      1376396, 6294096, 5269791, 10077200, 6334960, 14882490, 213941,
      1350077, 5095765, 9181790, 16079990, 12896675, 7193175, 1703796,
      12879272, 12246337, 3272968, 667141, 2615164, 9165080, 1296062,
      1449535, 6129065, 16510671, 14293126, 8071381, 12343758, 10540257,
      2821417, 13601894, 6361179, 6704996, 3489211, 825343, 6748410, 2758256,
      7816375, 7381884, 14479365, 13603588, 1023454, 7651036, 9996929,
      10117269, 6463406, 3845562, 11152940, 10815140, 14375228, 1419174,
      4285334, 7004716, 7894704, 1884484, 15804268, 3936731, 10704006,
      6019614, 8175621, 6834673, 5259453, 10011609
    >>,
    \* random.seed(91)
    <<
      1401241, 9908795, 2891960, 16232084, 11472454, 11383798, 2707166,
      6748637, 15925084, 7700425, 14165473, 13123312, 12454843, 7383954,
      7808882, 7685202, 13874863, 4287503, 4088153, 3152377, 10121618,
      14098325, 6217144, 13424360, 8228106, 3653285, 16172346, 13279180,
      3634599, 6484161, 12662677, 1522037, 12857705, 13916909, 1466799,
      13433550, 16654766, 11450921, 7525659, 11713955, 9117830, 10800052,
      5066906, 6477966, 9349064, 13159318, 16107488, 13823138, 5856135,
      6305449, 12297955, 16414735, 13157565, 10952851, 14571149, 12884891,
      11591724, 9180185, 7247022, 2909431, 5688272, 3007486, 6448128,
      11246934, 6270698, 12398279, 14865134, 9434662, 13894584, 13675928,
      3596720, 15220609, 4447866, 13127415, 741135, 8763588, 15626871,
      14948515, 994688, 15077970, 6558806, 7163997, 3081401, 9012499,
      3303960, 1173424, 15791668, 9065899, 7312644, 6969509, 10632052,
      12115921, 13929419, 4751495, 8783250, 13797893, 13748265, 5923021,
      12932241, 2573473, 10148201, 14624277, 9454014, 14361526, 14882860,
      7452782, 11336350, 16186866, 5742137, 7553518, 15092054, 9491856,
      13777821, 16704098, 15962811, 3397703, 11181657, 5784015, 7457825,
      13225044, 5928414, 996068, 10466019, 6951251, 3013970, 12452016,
      12246114, 12194993, 11870352, 8591737, 14744901, 5129889, 3664046,
      8745973, 9745706, 15586440, 9237248, 2480209, 10038767, 1698405,
      6866184, 782437, 154050, 13848948, 15543280, 5469936, 15169340,
      9052465, 2671108, 298417, 15314093, 11581474, 9998604, 6989945, 137522,
      15176473, 10668649, 8456883, 5037286, 3534584, 6257920, 6265382,
      1775157, 6821451, 13969581, 10993296, 10885023, 12839909, 3892362,
      4107614, 9543261, 8608297, 7087451, 9742843, 16498785, 15504285,
      3511404, 6679422, 11478123, 4786824, 13392094, 8835225, 14907478,
      5136571, 4494922, 13324700, 14538373, 16474581, 2988969, 895443,
      2516723, 2025503, 10359762, 10060683, 15124660, 10421024, 6919643,
      13793175, 2962177, 13592873, 1658814, 7604303, 6911061, 5295392,
      14576307, 7747335, 10557768, 5526148, 8108609, 16286290, 8816911,
      7109084, 3494062, 16124250, 3896193, 10594230, 4438159, 10070098,
      12305727, 3086257, 10969432, 11758817, 870115, 11649476, 9477780,
      11071196, 16087029, 6614909, 1225603, 11605578, 2691329, 14837156,
      16251905, 3360004, 8733322, 7059550, 15125704, 5836313, 14001530,
      5411537, 7877728, 9431716, 16619777, 2000718, 4390481, 4763056,
      5169423, 1374963
    >>,
    \* random.seed(92)
    <<
      7063956, 8660231, 9477696, 9228914, 9364042, 13287263, 9879265,
      4461770, 13434885, 13484033, 16221500, 14719543, 11284531, 12787855,
      13569499, 1584890, 9567623, 8768933, 7910412, 2665821, 14064860,
      13928253, 16709253, 1309379, 9606335, 11205942, 10587071, 5678014,
      1042744, 729937, 14463289, 437314, 10767521, 14858221, 10630464,
      13419606, 2767384, 14472688, 9752591, 2674373, 10165984, 10316453,
      2630162, 12204776, 6904704, 8100058, 12475047, 11325476, 13087773,
      2779989, 11962164, 1991844, 11305074, 14537945, 15956892, 2596936,
      13271290, 7767741, 1144862, 7268187, 6079481, 6899125, 589867, 4578891,
      15237193, 2753823, 11557516, 3012037, 3684349, 9970098, 3010524,
      16173999, 3819288, 14648930, 10203339, 2378212, 8070281, 13132371,
      114110, 6373882, 10961444, 14556167, 4807367, 4860322, 4816645,
      11123913, 16752543, 12994024, 15162530, 1662307, 14694299, 13793428,
      14913180, 10941912, 9552938, 8899215, 936707, 5776650, 6322361,
      2332472, 10193471, 10093734, 15613068, 5147528, 5480892, 11847601,
      1219610, 1570097, 16015027, 13430518, 12023442, 15255871, 14076228,
      8307693, 8214872, 2565271, 4980711, 16390746, 5368335, 14813179,
      2334176, 12599734, 6156387, 3672036, 9436515, 9181213, 16163900,
      15992374, 16154023, 14191231, 8155825, 13885057, 3601052, 3101412,
      16148446, 5325982, 145566, 758618, 1229883, 2334339, 11354151, 9202361,
      10082565, 5945572, 16486679, 8159869, 11448857, 1636470, 13617962,
      1509267, 14795361, 3089462, 15986702, 15866557, 14850114, 14173913,
      8516950, 5631507, 10741794, 9053920, 12904741, 1744431, 413294,
      11573041, 8803046, 1736904, 6861322, 6803786, 13219859, 9206091,
      3259785, 11145170, 14030526, 10598862, 3732646, 6110628, 7741107,
      6961400, 9234681, 16200246, 5240723, 2877555, 12100530, 3441070,
      13468271, 10757909, 16638486, 15759381, 6857123, 16749679, 15490453,
      11676180, 10024357, 6568408, 13408309, 9067804, 3008066, 9794682,
      7590455, 1137761, 12789457, 9112119, 10686756, 5680337, 3107469,
      5501934, 9889256, 3176129, 12893740, 8758942, 14240386, 6696758,
      637528, 13212530, 1534772, 10765009, 5141318, 6694107, 59093, 3166349,
      14577200, 11964092, 13604434, 3270200, 13175357, 11594282, 9421520,
      2219841, 5323630, 11089247, 7749076, 10015875, 1156445, 15543917,
      13752300, 13751961, 3426184, 7305359, 12566915, 12091288, 5645855,
      11623007, 2648036, 15969590, 6423116, 6582287, 5237082, 13621006
    >>,
    \* random.seed(93)
    <<
      15306581, 14246424, 8293812, 15435072, 9492573, 12129174, 5927304,
      14816534, 1906168, 1540294, 5962288, 2480021, 2899819, 6566937,
      2045004, 13217899, 2702384, 9758660, 553145, 10402447, 9284659,
      15099290, 1997902, 11387870, 10430534, 14019314, 6171674, 6685252,
      15213146, 2083054, 11000244, 1184210, 12931585, 15704142, 10882496,
      3464267, 12615740, 3735504, 15800685, 11004894, 16722003, 8089763,
      2718647, 9931607, 4965208, 9977634, 4912292, 5686350, 3570200,
      14986227, 12884265, 7954776, 15452637, 1069649, 1074135, 929668,
      2819204, 10054038, 15402012, 12587370, 1763297, 16258384, 1365201,
      1367682, 15026565, 12691022, 4726349, 13624745, 248562, 3424342,
      9547066, 13026896, 3169127, 9448076, 6477351, 2581827, 5482808,
      7404962, 13726678, 14939675, 15837983, 12473499, 16127873, 1462177,
      8328626, 6598657, 15571837, 2760265, 11536539, 11611964, 9218542,
      2383808, 10864837, 9022034, 11017254, 1374508, 15329894, 12175282,
      4266878, 11876760, 15364302, 13955243, 14203736, 5851108, 10247821,
      1405781, 8550800, 42444, 5128524, 9229857, 16124239, 435207, 7056044,
      8439007, 1028136, 330097, 16628568, 11522880, 10370005, 15708828,
      7516915, 188150, 261105, 8467466, 6943938, 15641801, 15998030,
      16602699, 15850424, 14546559, 2273733, 8597906, 5104504, 14196095,
      16578374, 13905488, 11745081, 14132377, 9055035, 16082806, 2272205,
      4484379, 10577904, 3771328, 675455, 5891266, 643003, 2702840, 11973354,
      11023177, 1299401, 11464601, 16672301, 5308989, 3628911, 8106505,
      898731, 9011183, 5882083, 9810895, 4530924, 11723236, 15839367,
      2924527, 7127645, 15687547, 5641286, 9724275, 8837188, 6751820,
      4749580, 2330644, 245908, 4561337, 633119, 14569587, 11244367, 6307186,
      8831597, 14321887, 89079, 2695512, 16626738, 12594743, 9171074,
      6178387, 8013562, 472166, 5535808, 8506209, 16037892, 9621130, 6023045,
      628065, 77146, 10818096, 14617661, 10841756, 9867904, 9970288,
      15353216, 1338111, 5043057, 1688449, 16533361, 9020268, 647913,
      15184220, 4754351, 2066782, 2515369, 11839497, 7364203, 9045036,
      13578647, 1307506, 8132717, 14835560, 8189266, 15803366, 10647014,
      7197453, 3128797, 3359501, 16570510, 10418660, 2406915, 16408213,
      7266590, 15207360, 12172353, 12096904, 13085473, 8856011, 2395413,
      3780983, 7847398, 817438, 8129838, 13937270, 7048241, 15201860,
      3073195, 5099814, 11445636, 6529494, 7993400, 3149853
    >>,
    \* random.seed(94)
    <<
      9173807, 3062802, 2082369, 13820528, 4699191, 5075016, 7225984,
      14239597, 283447, 11530590, 8358328, 6222747, 15972411, 5122863,
      7190032, 9984375, 13992629, 4597533, 16106569, 9016989, 342306,
      7304359, 218784, 12484258, 7314984, 5989029, 16104813, 15451281,
      7625129, 5879759, 13382907, 3586271, 11266765, 12130338, 756815,
      6905247, 7816121, 14133359, 10800610, 13949872, 2679636, 4392348,
      2218186, 1547655, 11197858, 16146855, 5038660, 7957062, 11587750,
      16767832, 4650868, 14511353, 1275552, 13615431, 6284393, 7226970,
      13208524, 10584434, 5853629, 671893, 9159515, 16139194, 12984474,
      313529, 4648015, 11199163, 14543817, 3787706, 688098, 14573392,
      7552129, 5638796, 4054038, 4449882, 2865740, 840459, 15096597,
      13657551, 2786006, 11498903, 13088367, 12499665, 7903670, 9593810,
      15858811, 3445922, 14859649, 7931371, 274189, 11986956, 15964025,
      3436167, 9378222, 14973469, 12192988, 8393660, 1769038, 10756812,
      12059199, 11320783, 12103417, 10170522, 16189807, 14919388, 9992220,
      4733057, 667300, 2132589, 10979591, 9274694, 11169474, 10656953,
      2174252, 3444743, 13568867, 3207786, 609898, 6943865, 9848814,
      10265882, 10443535, 16618093, 15873452, 11744118, 2817984, 11543494,
      3673474, 2831741, 11349413, 3862720, 8105606, 12906538, 15407568,
      11305112, 2678863, 8504704, 11070864, 7093699, 3580584, 16748523,
      15631906, 5594413, 6158609, 10968953, 6975518, 2459708, 8566588,
      11278620, 15601532, 9972442, 14095589, 2123512, 10481239, 12175796,
      5349803, 15823072, 10529107, 7156056, 14778789, 2335643, 7817471,
      13698746, 2490699, 9228357, 13246975, 5547224, 16579589, 5320308,
      4985290, 8482140, 885374, 10580481, 5431702, 5686623, 3225500,
      10340506, 10855174, 237793, 8444765, 3436042, 14193865, 2599623,
      3295059, 16122213, 10724493, 11767127, 9807585, 2458562, 2162060,
      5197327, 8315206, 7590441, 3551665, 11510895, 373231, 7350634, 6573046,
      12172433, 6323928, 1623338, 22147, 2262626, 13693408, 15737043,
      14155813, 10411841, 2512699, 5868138, 4115751, 6758391, 1396695,
      856282, 14706223, 1720364, 12397365, 1616534, 13203558, 957047,
      7480737, 11711925, 13389700, 1319596, 10270226, 7587062, 4514479,
      1789003, 5013570, 15231237, 9216156, 13192062, 7329607, 15050932,
      10752559, 6237121, 7421024, 13230211, 289327, 3007385, 10974264,
      10017221, 10302635, 14798971, 13259272, 12529608, 13006627, 8063880,
      12974385, 4736558
    >>,
    \* random.seed(95)
    <<
      12753393, 8923116, 8620412, 16270908, 16728598, 12353768, 9046628,
      13146913, 15696018, 14500948, 2152897, 15887429, 8287505, 481280,
      2340429, 13520974, 215831, 10085393, 1422850, 10583497, 4641253,
      13544315, 3251450, 752233, 9529628, 12115271, 8877975, 10211167,
      3267988, 10555688, 10882032, 1834943, 6039863, 4703698, 12476405,
      13349138, 6493173, 6274177, 2583666, 3000253, 3097233, 6570112,
      16020378, 5698679, 10416945, 3010831, 10078696, 6654393, 9990093,
      4258520, 8539710, 11045225, 2661877, 1860944, 12334081, 1646161,
      11464317, 6038233, 14670882, 10795757, 7880864, 5133557, 240702,
      407350, 6205293, 11548998, 8892582, 8905533, 9914334, 5886930, 5021911,
      15564044, 6226686, 3317870, 7219208, 10231416, 15130842, 6384487,
      2061452, 15046780, 2220203, 13118998, 15677724, 1371882, 9446503,
      499521, 237993, 15055254, 3592663, 10992814, 6536935, 3890486, 8656198,
      7888253, 13920073, 12381995, 11012146, 9621198, 2769348, 11541964,
      11373640, 6605176, 11756824, 10813456, 10506505, 14141613, 7372190,
      2391562, 9695489, 10122111, 16594733, 1877059, 7586234, 12644153,
      7701383, 14731370, 15375564, 3145961, 9643564, 5426136, 4967343,
      6467601, 15981629, 15019696, 8504459, 3256429, 4621533, 2366496,
      3819686, 12905449, 1899555, 2942543, 9292238, 10116145, 4081041,
      1534116, 14915442, 102211, 3359756, 13065813, 12832940, 7481451,
      10531132, 12173735, 14407425, 351736, 6257174, 12915711, 4913050,
      14566907, 12924308, 2785427, 12242133, 16232205, 13878070, 6803249,
      3737569, 4149318, 9010826, 391289, 9998762, 6084742, 12493790,
      13161051, 9112911, 2561697, 314166, 10690185, 11618420, 4922684,
      7164005, 6201763, 7062372, 15230918, 11455474, 8019216, 14886395,
      906314, 8546792, 15442563, 13087043, 7525208, 11988064, 7784862,
      7666171, 1660415, 11651602, 8523303, 5841323, 3234285, 16015800,
      4199770, 848874, 5626691, 3724781, 7721623, 2362548, 5390490, 14727532,
      1138089, 2305724, 13105508, 2750754, 10238052, 4378567, 3713702,
      1531369, 48541, 10966684, 11895834, 6420576, 10175680, 13162068,
      7492966, 3312938, 13892509, 14073999, 5485621, 8305387, 12823314,
      6433564, 12671859, 8691303, 4714230, 3155374, 1572492, 5015930,
      13015971, 7649298, 8957043, 13763670, 2252435, 1856377, 15789835,
      8487264, 15278835, 8201501, 13037362, 9419720, 1742036, 1113048,
      6368066, 15725791, 14555800, 7745473, 9233314, 7563748, 11533869
    >>,
    \* random.seed(96)
    <<
      6217540, 5279166, 15227422, 11297417, 6644224, 15506562, 3457002,
      1610652, 13720367, 5718675, 12730284, 773702, 11715242, 14875784,
      365970, 2791317, 6832192, 10792646, 5276507, 1458538, 4279568,
      16681472, 5688353, 5991431, 4629652, 2209171, 8461023, 13554761,
      188992, 14161344, 9673607, 8023484, 16459391, 9132874, 8109070,
      7467607, 5332416, 4085570, 11554324, 14083062, 5814490, 8887025,
      15240038, 15732245, 14784391, 15330847, 13406811, 15243658, 8595838,
      5425648, 474246, 2759243, 1024208, 2092354, 7341252, 8477110, 13864513,
      3569308, 6248618, 1142919, 16453263, 2246594, 9880329, 12506684,
      1911579, 15815300, 9281066, 14321761, 16458813, 13040787, 5077598,
      16420338, 13953320, 9460328, 11007131, 4345501, 4236757, 11512144,
      13440322, 15557115, 3254438, 13055542, 7265752, 6855621, 12913895,
      9979591, 816752, 4630526, 14542009, 8515911, 5967761, 13942068,
      10879198, 9911125, 10828675, 7113864, 16452624, 16731872, 6824780,
      1561851, 12405117, 9971652, 9840576, 16722260, 3400469, 11757245,
      7818116, 15843429, 16432703, 13003221, 15306014, 5245807, 3708396,
      682121, 9535255, 16153722, 5146256, 2169041, 3802413, 9725988, 2896610,
      4927349, 7153979, 301802, 8226665, 2245476, 2826307, 14864562,
      16473202, 1111430, 51528, 13787625, 7671414, 4711061, 11023839, 108291,
      12811166, 2801658, 13481158, 11901102, 11484747, 892283, 5812075,
      2921886, 12325766, 10729674, 1204139, 8542222, 4515818, 11782871,
      3613091, 2229082, 2995247, 63938, 1968547, 3437838, 5743808, 4906172,
      12949577, 15410238, 11318003, 15419096, 1535923, 9357814, 12118014,
      5306536, 4943307, 14158509, 16657315, 1425569, 3858184, 10258903,
      9808849, 2643988, 7444974, 14866809, 5144840, 2745417, 13678241,
      5553689, 10904177, 2298684, 13925188, 12541829, 718596, 1819247,
      8410853, 14066963, 13274014, 13239804, 15660735, 8010201, 5672498,
      7002049, 2201394, 688285, 3252629, 359463, 7091425, 7108080, 11354121,
      1490299, 4877052, 12595192, 9373506, 16191986, 8231169, 12837501,
      9086955, 109641, 10739033, 282670, 10821441, 13997659, 1438592,
      11439379, 2471230, 10199471, 3988163, 7272877, 9071240, 13662746,
      4464891, 2484651, 4912790, 794094, 6276110, 3180279, 3159563, 9221223,
      12811905, 4282059, 15329232, 5861851, 6750213, 6344314, 7434587,
      2179701, 2090291, 13980161, 8550022, 4944313, 15036565, 15533978,
      16606362, 5756687, 16468359, 9208498
    >>,
    \* random.seed(97)
    <<
      3263793, 7196826, 13523732, 16695820, 6242128, 15383858, 14126868,
      13701976, 13359616, 854719, 9635957, 369396, 9359983, 12981227, 697796,
      277916, 14902104, 12465687, 13674489, 4569259, 6176034, 435736,
      1188490, 10681639, 7346438, 7909559, 11285647, 1898185, 13790473,
      5289588, 4064575, 15106109, 5126416, 3065990, 4233094, 12798092,
      6914009, 8993143, 3150111, 2957552, 14476060, 1800117, 3933490,
      9537554, 9140291, 2153322, 1096444, 13077519, 12554264, 2346923,
      1833956, 15431242, 1078976, 9084809, 8923455, 4663386, 15217504,
      13435212, 10419608, 1365940, 12467356, 1040817, 7596800, 1287622,
      16404418, 13317898, 4026008, 3039046, 348406, 15266434, 9779972,
      2546534, 8501417, 15688137, 3317577, 6106330, 1326603, 11735338,
      9958250, 15559471, 4091396, 197573, 2361485, 11590411, 16429991, 34929,
      16368824, 14522180, 2613030, 8313308, 154708, 9894387, 12371956,
      8618740, 7917463, 388678, 12512564, 12171489, 811420, 9317557,
      15474908, 7389391, 12335640, 7237342, 14867149, 1605818, 752198,
      12062985, 8908150, 191002, 14061236, 14522345, 805615, 8951279,
      11293914, 10251559, 9042821, 9325687, 9439135, 3994447, 9193406,
      7146948, 6848394, 6012870, 13044297, 2974803, 7394477, 2061307,
      10348157, 12245737, 13092894, 5987413, 10109430, 16704374, 4728670,
      5728290, 14883245, 788903, 16497818, 3490933, 4048123, 13910090,
      3142181, 5555683, 4953834, 1394282, 8446782, 9088089, 8472272, 9719986,
      16673977, 10894760, 11692751, 1741798, 9676849, 16121145, 3514613,
      12958452, 8115733, 1423229, 14752013, 383848, 9249164, 7451667, 342603,
      7604861, 4920862, 8688182, 672344, 3004716, 9019410, 5027188, 15447792,
      8545490, 14218676, 16771346, 538610, 1654906, 14511096, 8954716,
      4529928, 6785659, 15435460, 3150981, 6267354, 14155385, 12328376,
      1433883, 8766410, 10150643, 2695904, 6484981, 8444870, 164557,
      14550154, 2584279, 7386586, 3421543, 8676134, 10940402, 7300150, 55053,
      15798715, 2206944, 3207694, 2879703, 7914583, 2964713, 13108372,
      1180208, 14017257, 15528135, 6316160, 12685300, 5011202, 11831647,
      14789499, 2708182, 3147277, 14904969, 15239589, 533162, 15175083,
      12050173, 35780, 14734924, 4314699, 16110570, 3202809, 12009075,
      4223399, 14958703, 10424131, 1567030, 12989133, 9892956, 7909930,
      4511094, 2291298, 1788535, 997755, 15892430, 4575103, 9490127, 5225744,
      10835688, 2336677, 1975583
    >>,
    \* random.seed(98)
    <<
      5979369, 9646342, 13944555, 722768, 5911932, 7015759, 985238, 16306695,
      7941168, 4729511, 12216856, 13709806, 11383171, 9332052, 1084704,
      13223061, 8338558, 15269497, 3287074, 6670584, 579431, 11001411,
      16435309, 13541482, 11825841, 12751779, 6056069, 67452, 13019112,
      13086251, 13273336, 14943295, 125308, 12630858, 6430786, 12973428,
      5110606, 5607553, 774755, 10771549, 12506901, 11676373, 14550424,
      16421993, 8145274, 3229918, 13943803, 13813656, 9071927, 2881375,
      6759348, 2994825, 9556310, 8390022, 13642251, 3158077, 4505576,
      10382503, 8610366, 15834103, 2099556, 3579723, 9073501, 3290945,
      11595193, 13259398, 6883645, 9057190, 1727417, 15437383, 14781702,
      8709728, 12949823, 2658585, 13868249, 6479902, 2649813, 13957478,
      16761610, 5259283, 8284387, 16639670, 2989183, 11742304, 4957029,
      8877000, 1298468, 14819327, 13555950, 3114331, 15885284, 783572,
      15269389, 7511302, 11990416, 8255880, 8864440, 12939854, 6244994,
      11137620, 11137749, 9395440, 211908, 9101862, 1020855, 14629611,
      8942881, 3865872, 5497815, 5086849, 16608826, 3574889, 11537501,
      4246486, 718364, 2034698, 10184059, 14194028, 588701, 7834829,
      16095065, 7183580, 11642448, 7993546, 13129498, 14291577, 6024837,
      7074109, 539281, 6415186, 12321940, 12161256, 11473270, 4681222,
      5644898, 4435231, 3455048, 10994024, 14399505, 238302, 5534895,
      9627815, 11591563, 181069, 14906377, 5343570, 11162225, 11899406,
      2064129, 14676212, 14381269, 7129049, 16327308, 11117918, 14487251,
      3570648, 11372211, 7021621, 1640808, 9137698, 1474472, 16760545,
      12966122, 10339276, 1924913, 7309643, 14608614, 7075597, 3720682,
      12004990, 7639814, 12493627, 3694251, 15534670, 11150272, 8159689,
      11157281, 7444611, 4837528, 6809700, 8145151, 12636632, 8043024,
      6899369, 10772549, 14091333, 15208105, 13188619, 7129622, 6414157,
      390804, 7528694, 15412507, 10371890, 11964489, 525430, 2914990,
      15057968, 11152709, 13694021, 803740, 2511424, 16659209, 9623595,
      4313738, 8313728, 12492977, 9082979, 6002132, 15799696, 10193826,
      3097094, 9263020, 2188942, 16394455, 5240167, 7959166, 16138769,
      13783659, 14689404, 8440046, 15431991, 5831306, 10490951, 13722928,
      14117841, 2039417, 5550752, 3001982, 11160416, 5275045, 5387954,
      8607955, 11723274, 9692370, 3817861, 3242615, 13281948, 101684,
      5523840, 7823841, 6869059, 1157874, 12015981, 9050171, 5919991,
      16211418, 13344665
    >>,
    \* random.seed(99)
    <<
      6777627, 6387969, 3356708, 10056919, 2999805, 3863167, 4167985,
      2235470, 12748627, 1452545, 4213614, 12231110, 6426807, 8905557,
      11480793, 11752241, 9036697, 1507202, 15743351, 10467634, 8208671,
      3346519, 7073933, 12116935, 10288058, 9871834, 3635493, 13297856,
      15133037, 13225749, 6274339, 13796331, 6511436, 14453440, 11448249,
      3566682, 2554776, 7742404, 11082490, 3003137, 14260083, 9511255,
      5684233, 1391930, 15885659, 12023895, 8870385, 11364508, 12993510,
      1473076, 7869169, 5307954, 6754888, 715572, 4519768, 9360880, 127838,
      7133772, 3418599, 6082268, 16602229, 15655410, 8964234, 1355874,
      7752528, 8701586, 15103558, 3323229, 10158757, 7762825, 16386506,
      860969, 5998272, 2166605, 3620914, 15979047, 15447860, 11998132,
      2697976, 12541108, 13284855, 7410741, 9989448, 15516357, 16490125,
      2980060, 15836191, 8442218, 11077989, 2953174, 621800, 1842011, 390973,
      2872045, 7947818, 11473345, 13751748, 7030041, 1361641, 15714924,
      7137367, 10603447, 1443157, 2397658, 5197697, 10358100, 95092, 6393151,
      5531409, 2278616, 8781229, 6800313, 3368771, 15098993, 13207290,
      16338166, 929456, 10744694, 3547293, 7431849, 4321417, 9151483,
      6779130, 13843448, 12814352, 2119816, 5935921, 15793273, 11660146,
      7988360, 15471938, 936465, 2196589, 12390881, 14494330, 12052140,
      10060760, 13068478, 12536293, 2523964, 10201127, 15791108, 6850128,
      2086531, 1618720, 1991703, 2410255, 4965616, 2921501, 16628260,
      2980397, 6876554, 2441276, 15504393, 3482603, 14771175, 9411443,
      5353718, 12927971, 8374071, 13387641, 3924292, 14195628, 4321788,
      1966512, 14392604, 13796717, 6068362, 3119755, 11380399, 1214493,
      8409291, 4827044, 187040, 9826290, 13967930, 799898, 5661219, 3629283,
      6324578, 6695800, 5649794, 13797030, 13629340, 6700989, 6474998,
      6946861, 13651429, 6223954, 8965205, 1554649, 3040458, 14756708,
      630697, 15485977, 6257827, 12107445, 14380447, 6687060, 12932240,
      7448644, 3862279, 5224739, 14320730, 10977904, 3792419, 10961623,
      12079037, 5211949, 1774169, 14667148, 11540739, 12091763, 5266919,
      3667565, 12817680, 13577362, 11937763, 11312822, 11938934, 4189616,
      6434977, 4972376, 7350523, 12608182, 16090891, 1344309, 14806268,
      7345330, 7065039, 16169992, 15227963, 4298533, 1168980, 8441467,
      4916224, 15220385, 11489168, 14673236, 5378704, 13223871, 8004382,
      8946351, 2135411, 15599971, 15032609, 4308988, 7229670
    >>,
    \* random.seed(100)
    <<
      2443924, 7709613, 7632408, 15967173, 12931606, 2931776, 11836547,
      6594010, 12280233, 5867610, 7273165, 8503783, 13422116, 1844991,
      8940602, 2035275, 1344756, 12359964, 7649502, 4419392, 803419,
      11053098, 15652511, 10863252, 15889332, 3430697, 5626252, 3853814,
      5190970, 14074480, 12885206, 16564661, 3420363, 16120562, 2994074,
      2362756, 3164097, 14979611, 5821768, 6208612, 10507933, 6873508,
      16161756, 14006782, 3537207, 6762342, 16040707, 7736124, 9318060,
      4626800, 15118822, 13293026, 13724067, 6293117, 2691431, 14369406,
      10880744, 10711515, 2081939, 3030760, 94708, 10112670, 6635660,
      2476392, 12977188, 14285773, 9498550, 2726971, 3231973, 2802039,
      14112569, 438469, 15330631, 11168690, 3979976, 16276288, 7519422,
      13411758, 10700505, 15473897, 15138803, 6503866, 2124250, 10466842,
      9293765, 12698030, 16249136, 880093, 10219006, 4145496, 12034365,
      10382335, 13001597, 15577136, 8507944, 11977981, 4862964, 11572265,
      9904841, 5682699, 8861377, 11438924, 5759086, 9101311, 14330622,
      15826793, 6090110, 16751131, 8112855, 6740015, 12775877, 1039234,
      13653608, 1699910, 14939388, 5031480, 10930469, 7289001, 4236799,
      4023120, 14216551, 13824317, 15255468, 11859777, 11991408, 7338851,
      12867418, 14896519, 8616425, 13440374, 8279252, 15127677, 9775823,
      4264942, 2469415, 976757, 11340990, 9820580, 14450905, 5482094,
      2763284, 915798, 12647957, 4616261, 11847768, 11676607, 2030096,
      12042748, 850945, 13121035, 9988542, 14871284, 3676670, 14863289,
      5198565, 8799928, 10421560, 3631613, 10919124, 13493803, 12561925,
      12200932, 9533039, 5993228, 5599240, 7645203, 210172, 11568954,
      1913104, 7977852, 3235122, 13791970, 8812789, 1997923, 12081379,
      9993642, 3508882, 737238, 6540514, 12161065, 15710466, 1745342,
      6721111, 11378260, 11965662, 2541688, 10376446, 16470214, 11068504,
      10795001, 7997882, 15682459, 9145056, 652179, 11758049, 7469784,
      2703263, 828399, 13400866, 7950322, 14644432, 12669172, 790217,
      16702613, 3323935, 15670612, 4174078, 2641889, 1582760, 655170,
      2348461, 3552167, 10761491, 1513098, 2063764, 4221130, 1120725,
      11535141, 15868423, 12301557, 6744803, 618346, 9068569, 7152576,
      7954506, 7558235, 5765745, 11667966, 7620512, 8784858, 3258178,
      10174735, 9726371, 14375809, 4214744, 7008913, 2438245, 13865381,
      3501085, 13897542, 6924305, 1298786, 15608696, 16774505, 10030709,
      4512855, 16454526, 16594363
    >>,
    \* random.seed(101)
    <<
      9750114, 14212275, 3267438, 15240053, 16194226, 9046729, 15501751,
      6017563, 7837286, 814047, 11131190, 8447669, 3599098, 10100602,
      3719445, 15393651, 4840603, 8144727, 11616925, 13136771, 3563090,
      5520333, 16292454, 7348119, 1180369, 4282249, 3242811, 2702248,
      1490883, 7469413, 12916643, 9014867, 6149100, 3214704, 7913515,
      13191555, 5469846, 4006740, 10694249, 13274049, 6776222, 7085052,
      3494152, 1055269, 7216787, 7846969, 5105135, 3552537, 1858901,
      10943405, 13814216, 10484316, 11410973, 5511844, 11153344, 14409467,
      14804996, 4484861, 6621009, 13124936, 6363234, 3843953, 7096209,
      1289140, 6787297, 12490117, 11222869, 7020183, 109363, 14626859,
      7786396, 3635623, 8977212, 1588799, 5796766, 13348041, 366853, 6222743,
      11821149, 6033296, 158441, 4396727, 9469236, 13746922, 2573066,
      16535998, 580194, 7244202, 3034024, 4659768, 1102918, 12811202,
      2529311, 6789314, 11490173, 16624411, 12218449, 13893621, 6086511,
      15039363, 10945266, 9547398, 7971427, 2790564, 8362632, 14157538,
      14695178, 8563699, 5222648, 14566750, 14596018, 3039312, 11594403,
      8901582, 11466497, 14647067, 99786, 16000123, 1410315, 1106432, 536752,
      9658227, 5800980, 8962211, 15872897, 11779980, 14691926, 7420023,
      14068964, 13710736, 1994342, 11338481, 11840092, 10231942, 12993598,
      10157635, 13577076, 7727941, 13291483, 10697023, 2354109, 11505280,
      3000309, 15509013, 13296952, 3369889, 12385219, 15651792, 14972816,
      9182769, 7490628, 16359511, 14924545, 16252275, 2338894, 1362659,
      16057867, 2516343, 14839028, 5233425, 5663260, 6291759, 1133346,
      999561, 9202920, 9233070, 11562949, 16753052, 5878310, 7768103, 964578,
      3229869, 4675315, 11392810, 13832841, 5495792, 1520502, 4699560,
      15724604, 2584435, 4194609, 7820194, 3429902, 7129999, 1882280,
      8797804, 16458975, 13426124, 15117116, 16094866, 5354535, 4099471,
      1604320, 4707603, 10960717, 16395008, 14891032, 2953543, 203192,
      237305, 10620745, 6635119, 14373339, 10284316, 7697719, 11004848,
      9552528, 745882, 13493388, 5645127, 4001752, 13268243, 4584313,
      7906364, 11079809, 3284525, 9266678, 9950932, 8981637, 5290906,
      5609544, 310740, 15719819, 2243979, 4834378, 5797271, 11389807,
      6112624, 15001517, 6765265, 6724253, 10709938, 911540, 12499483,
      3697667, 8662974, 1112192, 3626353, 2485144, 11155597, 2020733,
      2447021, 5746167, 2037154, 6206451, 398992, 7505848, 14431488
    >>,
    \* random.seed(102)
    <<
      2485900, 11346321, 10334182, 6010244, 2846855, 9301553, 11953882,
      11088329, 10197737, 3061577, 6448112, 4912421, 10359891, 7199276,
      9500139, 9752822, 725149, 12151720, 8893908, 9109837, 10396139,
      12521742, 8717592, 14847555, 14754927, 3109599, 12336474, 13268358,
      6327023, 7407483, 3805739, 8558012, 2148310, 1425055, 13592929, 886917,
      11572694, 3083013, 10222652, 9652707, 7411030, 15072383, 8406072,
      14049823, 3724956, 11983524, 8898790, 8818752, 2438602, 8233927,
      10420355, 6912653, 10572447, 8030448, 11245650, 1149135, 4134572,
      10255776, 1543557, 13899697, 5586502, 6333544, 11536470, 3262932,
      8554936, 7170709, 12542809, 10115181, 7231876, 14096794, 6684640,
      2238752, 15226568, 13501657, 2801931, 6097666, 3478952, 1204776,
      9878608, 3980346, 10593098, 4947178, 7261788, 2142304, 9362713,
      10317811, 7391765, 16184105, 11218570, 12871810, 14911891, 4482166,
      13842138, 5301821, 10724586, 12454597, 7887537, 10715788, 15897235,
      8999782, 7501671, 14645378, 10497883, 16610183, 14570676, 8580408,
      11465496, 3478792, 6555402, 4099637, 12465717, 3438665, 10071233,
      9847725, 15351045, 9108768, 10453588, 2724746, 8953504, 14043924,
      16341236, 6201807, 8852439, 811110, 6684668, 2001073, 15732096,
      7951415, 15838904, 14679460, 2885964, 5156240, 1214999, 13063939,
      14395875, 8776104, 14809787, 15303097, 6450344, 12184525, 4273542,
      6968835, 11483750, 14889829, 15772444, 2886707, 3575066, 5281344,
      7513375, 3210774, 11117942, 2630799, 3704624, 8650860, 6960128,
      2302452, 2397940, 10067808, 8048148, 8921517, 3857309, 170510, 1353082,
      4053811, 6528930, 4621749, 2519925, 1942011, 1994109, 13022001,
      2526733, 72631, 7007830, 4588721, 5332667, 4475912, 12218862, 7470043,
      6952069, 12461317, 4080837, 7214573, 3154693, 11508942, 4984806,
      13981934, 12470716, 11404142, 3381097, 375765, 7805758, 3145957,
      13533840, 13120150, 13920725, 13311610, 7756967, 9590796, 14138737,
      3473874, 10777167, 12416761, 3805893, 4345852, 1558241, 15791935,
      2852876, 15003006, 13256293, 11989903, 6537310, 11234832, 14050624,
      12823350, 16231591, 15526854, 15424039, 11429663, 7871819, 2338265,
      127744, 4273641, 4636148, 6819546, 3672748, 3100340, 10889413, 7162261,
      11776242, 15828207, 15462483, 3963768, 11830453, 2664277, 16100373,
      1226517, 10705318, 2054306, 7965864, 1888071, 14038778, 2635794,
      4597588, 11573790, 13060714, 2740569, 12205393, 3139724
    >>,
    \* random.seed(103)
    <<
      16425735, 11983881, 7655414, 15673411, 12060251, 11684865, 12329345,
      13728143, 3605451, 11560928, 1309259, 15306963, 10112353, 12400756,
      2045469, 10977806, 6412698, 7737111, 14926736, 5672884, 14632253,
      11329532, 1991271, 8205904, 1379656, 2216802, 3732696, 9785325,
      13893063, 16323217, 414807, 739189, 3777941, 16136242, 1799134,
      11600705, 2141414, 10186974, 8781614, 4927042, 3077473, 12513575,
      6869319, 14444110, 12300815, 9743407, 12129852, 11287165, 6963175,
      3801296, 13189153, 11026846, 9605082, 12941286, 13874089, 10361093,
      4175544, 1444032, 6192866, 3398557, 9736405, 3666556, 15869466,
      11632254, 10374022, 8554763, 7964186, 13852490, 4210380, 11945006,
      4719996, 15212786, 3620299, 12713263, 16548450, 8862509, 14874433,
      13477492, 15008260, 7711219, 8867914, 3239848, 11884719, 8782393,
      4974262, 695026, 8079412, 13972022, 2441780, 2200564, 7048781, 8603619,
      4239658, 15427258, 1677330, 8073613, 15425711, 5839637, 1622077,
      14100899, 13638722, 11037281, 11736988, 13773007, 1510862, 5130159,
      8139511, 11203186, 16707830, 2084307, 16556802, 15318174, 9450614,
      12853682, 12948814, 1598765, 11889589, 6431072, 4895136, 335644,
      9226411, 8008341, 10014988, 10415400, 6611169, 6399044, 13740524,
      12234424, 7452666, 4392479, 12574341, 14916071, 1085257, 2962052,
      7463950, 13065306, 745521, 5448197, 10852098, 4963007, 14640775,
      168840, 9117758, 4020678, 9485703, 3989106, 10443656, 3671724, 3842840,
      15676205, 6480315, 2584581, 9705932, 1416190, 10842814, 11240834,
      6376389, 472678, 8009070, 7621868, 5549712, 1493235, 9299579, 2439284,
      11340943, 591421, 5499023, 4610894, 11492340, 10877103, 14243422,
      3892156, 8999936, 1590813, 16447921, 7650640, 5192546, 6654198,
      15427711, 3037968, 3051791, 4489272, 6097425, 8884983, 13704516,
      10014654, 546640, 11731520, 10309444, 10707944, 14618266, 11096062,
      15837604, 11056295, 11445120, 8170226, 5797532, 2242779, 5574956,
      10859795, 10588813, 12555445, 1119416, 14174099, 472005, 10429940,
      14791799, 6442944, 10517659, 12313957, 2732353, 6885354, 7193057,
      13835773, 4849883, 12941864, 14584223, 13621643, 4802326, 10018153,
      12153830, 15397614, 12478642, 9061663, 5347885, 6948820, 4229554,
      4478179, 8742817, 567869, 6706230, 13568406, 9965346, 7571880, 5505560,
      13400100, 13329565, 13342865, 7051502, 2370562, 2284102, 7692249,
      12994479, 7446706, 15016104, 16418446, 11428030, 9488525
    >>,
    \* random.seed(104)
    <<
      16105471, 327718, 14627445, 3319754, 12279333, 12930671, 3818870,
      6560381, 5547257, 113135, 11975755, 2099044, 13534338, 13718844,
      280569, 15308822, 2796656, 1760459, 15022402, 2467589, 1981666,
      1280857, 10994593, 12641578, 5531522, 6186561, 10829728, 1021065,
      14466561, 3406900, 9756292, 4310315, 6562278, 16529096, 5407699,
      15891650, 10425805, 2878274, 10541347, 5018284, 6871602, 683185,
      7824032, 7472614, 8998117, 4091197, 4334298, 16130535, 3015054,
      14457848, 9539198, 655421, 1682394, 643000, 10028976, 13180189,
      13451910, 2079422, 13892668, 2739155, 4232418, 9421164, 6959082,
      5735621, 15492049, 1209934, 5870227, 10454229, 16635574, 9085403,
      3354826, 13647214, 14105313, 1587998, 687290, 12114576, 11200092,
      7733509, 13514838, 13242146, 9187048, 8008201, 10615069, 2216792,
      15330677, 3681845, 16715494, 2492794, 3008555, 14437082, 8769149,
      3063733, 668833, 9027048, 6350724, 530077, 2434244, 7753870, 2688598,
      3558072, 10483016, 7420927, 1417424, 1042856, 2583810, 1204470, 164338,
      2170790, 13648914, 11729111, 4088560, 2069383, 1212784, 7913766,
      10419016, 9417924, 12038847, 7011413, 10578718, 13929048, 9184135,
      8026455, 8968842, 3154795, 12072541, 7238852, 5205346, 434192,
      14136912, 12804230, 11641149, 418632, 14397984, 14788031, 14941218,
      12128161, 14086826, 8156760, 8710150, 10594634, 8763441, 11978033,
      12309230, 314641, 9715194, 13168568, 468410, 4259650, 15383368, 382458,
      3340136, 13081472, 8127188, 14775022, 7589689, 2095341, 1565144,
      3233440, 9701583, 4092952, 9903922, 1470929, 13641559, 14927788,
      10270449, 10945056, 5143435, 1716416, 9477739, 13406798, 16092341,
      2808023, 10681332, 1236002, 14156635, 10988222, 189852, 7005823,
      11569411, 13787214, 3543714, 16767405, 2731396, 6540681, 5556619,
      9083276, 2983804, 4013669, 1437973, 3121687, 3540791, 14343856,
      3865653, 14410953, 4184875, 9918624, 13402824, 11540286, 1395716,
      12318630, 3358274, 10493121, 916748, 6480747, 8493219, 11837751,
      3843800, 8533980, 8905132, 15335318, 3988791, 8047367, 3297148,
      11897647, 8186486, 132965, 1201935, 14546759, 14841282, 4872746,
      9438358, 1461248, 6632040, 3784707, 9224467, 1197211, 15893464, 544486,
      8293731, 938877, 6612973, 13091697, 3637918, 15546824, 6381900,
      10286927, 12981812, 15346849, 10284657, 7413742, 4625942, 1208084,
      15074668, 8605023, 2237207, 8448834, 5969764, 671181
    >>,
    \* random.seed(105)
    <<
      14732062, 9920799, 5857238, 9742907, 13266141, 1819114, 15964988,
      33285, 5238161, 8791877, 12890303, 9570972, 5615312, 4911257, 2747915,
      14257495, 5843555, 2779162, 12603516, 14920169, 2475765, 1677583,
      11060436, 6643928, 5893224, 15619652, 2835891, 14206790, 7216170,
      10327809, 6483763, 13927790, 7723486, 8334414, 14782820, 14627804,
      15441123, 11351756, 3812590, 11862276, 16573304, 3071974, 10267965,
      5214893, 16101856, 15347498, 13702956, 16605995, 8820877, 15389922,
      4208340, 1026091, 15592918, 5491455, 16762837, 13829443, 10482760,
      15807061, 1953752, 6011033, 13810538, 12173443, 12839271, 11283098,
      14760554, 3113725, 16379953, 14087846, 16370792, 13839197, 12351079,
      15643814, 6584233, 16045773, 8928859, 14750264, 8467718, 9528092,
      12757558, 10579793, 10507218, 8225822, 13859685, 10399036, 8648711,
      6343157, 9899445, 4842142, 16165278, 14832151, 13284835, 13645881,
      15622230, 8777081, 11723251, 15156919, 2084271, 9519785, 7028765,
      6004133, 4876767, 11847053, 4406048, 9485725, 2131480, 15455055,
      1852563, 9263627, 8071368, 14299024, 13134407, 6555930, 14551865,
      5982298, 16233278, 14262250, 9763900, 12868328, 241766, 9191605,
      3209264, 3414981, 960043, 10228625, 14564557, 3114793, 5366441,
      12732054, 12139868, 7137846, 7570068, 13059401, 9794913, 8475957,
      14288354, 2800851, 11024682, 544738, 1255259, 11682063, 10653015,
      1283411, 5966523, 9585718, 16384714, 5146167, 4491305, 11015848,
      4059025, 10921726, 15476206, 6113384, 6945684, 5076778, 1389856,
      14485958, 13357861, 1880769, 15419735, 1822553, 8256576, 13366412,
      2804886, 7323073, 14530938, 10449613, 5703186, 1461054, 4121958,
      12773050, 731810, 4802741, 14782790, 3666624, 3947768, 12599103,
      2018416, 14465258, 6104885, 3121254, 11747301, 16687882, 16726711,
      8697171, 3542534, 15574988, 10360255, 13916714, 4530523, 4658599,
      14459109, 1980099, 8175965, 13993318, 11469894, 15793915, 14057394,
      8859369, 8973594, 14914454, 7901997, 12779986, 158454, 10078939,
      2780671, 16160358, 11615782, 2403938, 12764442, 3524699, 9692511,
      11613243, 824949, 10876858, 12528835, 7397288, 14245047, 14582175,
      14362657, 5393563, 12591464, 3948254, 11122201, 13008809, 5864533,
      5844034, 6075062, 249647, 3191445, 5496073, 10794818, 6507823, 5688615,
      10833939, 13580343, 1790435, 3893167, 4101887, 4419921, 15312144,
      1437288, 13559816, 4698079, 1103525, 13049112, 11076259, 13841514,
      3600960
    >>,
    \* random.seed(106)
    <<
      11923294, 16411577, 15118076, 8040261, 281247, 9318002, 15805198,
      8839592, 13774152, 7987673, 951015, 15993667, 13527931, 4348701,
      13497206, 1071488, 3149217, 13584761, 16296233, 8289569, 6105814,
      7327738, 7564655, 12421103, 10968267, 4745868, 11579685, 3737857,
      12524811, 7853845, 4666197, 11954739, 8120218, 10878061, 2305541,
      3042173, 4610552, 6120072, 8233102, 5897409, 1250101, 4831842, 5852470,
      5550862, 13674589, 14512402, 2999886, 2348359, 7271947, 1432061,
      627746, 1560478, 12373330, 5383409, 1680651, 12168266, 3049717,
      13246608, 12504506, 6265628, 7420056, 11539953, 9279651, 5210091,
      10220703, 4221302, 8332501, 7500805, 7124994, 4023367, 2574534,
      14954588, 2385482, 8238227, 3419760, 2611511, 4105174, 3174156,
      5391694, 9479240, 14962155, 9291819, 3582328, 16514917, 2199790,
      5307489, 4510372, 15807754, 2212763, 9912310, 13909961, 15579805,
      15994163, 13729291, 12847292, 10524641, 15997250, 5995074, 9224385,
      16669473, 7599324, 8992662, 6453644, 3579870, 10948454, 7066722,
      4016969, 10558227, 8783594, 6169575, 6535564, 12622466, 11213563,
      6485281, 14620865, 16261040, 11041991, 11974419, 2333605, 2715262,
      9956840, 575811, 12269365, 5815609, 9021770, 8837498, 1106226,
      11928147, 1578891, 12882735, 9040645, 11953952, 12037323, 8032136,
      8302717, 8672953, 12224175, 3695485, 9219371, 15270860, 13814338,
      206989, 3622015, 14882607, 13950748, 1583379, 12556383, 7014915,
      1916599, 6245525, 3785793, 13611575, 4925277, 3565979, 13187369,
      2122810, 10709330, 367413, 1139756, 9125825, 12336614, 14924530,
      5153117, 11268731, 14488568, 15045839, 4659304, 15271884, 1709211,
      16664858, 5558783, 13644192, 7744430, 41861, 7201861, 8648329, 9010768,
      3390632, 1807898, 5068531, 4586953, 14062819, 698301, 4876493,
      16558267, 29827, 8175675, 3589786, 4807461, 11217087, 2816586, 564713,
      10143508, 5466869, 82719, 8881853, 2649626, 11061001, 11207457,
      13458575, 8855328, 5638619, 11871881, 14685699, 14225449, 15070337,
      5442049, 2042785, 12802675, 16337382, 13509294, 565898, 13872468,
      4485830, 8981988, 16081168, 12809551, 15575513, 571503, 1981238,
      3209922, 13711846, 9675070, 15670261, 9309863, 6263343, 10247349,
      8827452, 6962134, 12914249, 834908, 5798987, 5371544, 16165931,
      3351512, 13175508, 11179510, 7748687, 3961597, 10054412, 12748729,
      5298247, 8994197, 5993327, 6535682, 15037761, 10303239, 128345
    >>,
    \* random.seed(107)
    <<
      4135281, 10398667, 9752426, 12856860, 16312168, 12198934, 11035927,
      7135007, 8095346, 12804346, 5183888, 16055075, 2312178, 7122829,
      16756071, 9126496, 12655553, 2079160, 4196239, 4959554, 9972338,
      582994, 11891216, 11065411, 15213224, 15527599, 4703464, 14181685,
      5258994, 3193454, 3142144, 15216348, 9894693, 3248388, 15468292,
      2572105, 12323330, 8969110, 2341795, 4096386, 6242639, 1901477,
      1283621, 16038867, 2699796, 1062483, 8271090, 3148739, 2572990,
      7684435, 4539465, 1482807, 4078851, 4579533, 7087501, 7286245,
      14356602, 13797987, 3950646, 1196932, 10284816, 5182841, 6711701,
      15419853, 4890738, 13522284, 5007471, 15472315, 13067400, 775813,
      14138188, 6567604, 12287830, 16488639, 14912799, 16540678, 12220066,
      15769102, 5009907, 2770892, 3923518, 3680099, 9507986, 1581294,
      10219583, 16774773, 13166801, 7350904, 15203812, 3513143, 13384899,
      10486648, 16374954, 13745796, 11311353, 3655287, 11450519, 4921590,
      13409643, 8060463, 8337370, 13161688, 13388690, 9176675, 14684927,
      14992235, 8594889, 7402978, 5753308, 120721, 6392695, 15136477,
      10275493, 15555571, 9497084, 612388, 8305792, 15027084, 6531411,
      13650093, 12385363, 1919656, 11488077, 8433955, 15712579, 5689965,
      16141322, 4217056, 226876, 3876281, 6718342, 15898116, 12465347,
      11856419, 8993325, 14918334, 10366599, 4768221, 4311818, 6375065,
      6465720, 10613026, 14443352, 15955639, 11245443, 6193325, 14739035,
      11379920, 15401883, 9537830, 15448766, 8581587, 14513410, 4038160,
      15363383, 16612855, 15057288, 6815587, 15599339, 7334922, 6942293,
      2299906, 6841620, 11817562, 7482347, 13319533, 12862899, 6892445,
      16407871, 9524195, 11269540, 14178972, 7197399, 12482986, 1371725,
      4884820, 2211141, 2539358, 1117936, 10784497, 2509082, 16563082, 6837,
      14793876, 6689315, 4131021, 5112160, 5466795, 15927922, 15508171,
      2582290, 8333190, 1554079, 467984, 15075818, 11620329, 15464906,
      15377846, 8593267, 9644236, 9043563, 15237672, 5666394, 4027246,
      6659013, 15092782, 4733911, 5599572, 1711405, 2232803, 16384318,
      2581571, 14552498, 7423993, 14477264, 9514136, 2484354, 6925514,
      10685491, 3445337, 1018281, 15201325, 11998184, 2063917, 1173050,
      4991954, 10217642, 11182375, 2668395, 10946752, 16421250, 7623479,
      15309756, 12025816, 7137650, 12084496, 15429445, 208394, 13119134,
      10768965, 2981366, 3175069, 14421466, 15818729, 14728956, 5978581,
      4266352, 5439601
    >>,
    \* random.seed(108)
    <<
      2189766, 12000837, 13684073, 1425248, 14771342, 11102790, 6460775,
      12218423, 4639952, 6344038, 3286349, 16274188, 1357479, 5023816,
      3604222, 3025512, 3389177, 11931662, 14325054, 5330981, 3198936,
      1878328, 3189399, 1420198, 15567667, 9386095, 15387222, 7085159,
      1713897, 8950531, 5415666, 11052860, 16586335, 14427149, 6552097,
      3575480, 10529969, 14756554, 11601297, 10282048, 10856490, 15317575,
      928270, 12509972, 12129123, 9465315, 13650050, 16594098, 7515304,
      568100, 5799479, 13548842, 12125440, 5566720, 16596746, 10905639,
      15813988, 3979034, 3381611, 8576791, 12735503, 16120498, 8219730,
      3587305, 16559973, 390308, 16283185, 1153634, 8119489, 15395460,
      15130289, 12890503, 14842552, 9459599, 1871292, 16513350, 6811383,
      3129140, 15883006, 5690113, 3937209, 11621508, 7360939, 12302320,
      10553251, 176971, 5915813, 13294561, 13172241, 13038614, 3060369,
      3822417, 10027148, 6086801, 9256627, 2998902, 454381, 3862461,
      13279955, 9813340, 13258294, 8096703, 14297955, 8222801, 3201542,
      1806827, 8911926, 10772062, 2528532, 996885, 12307989, 15546787,
      10309429, 3037299, 14953994, 9501413, 2286302, 5711861, 4239499,
      522174, 1205740, 13273347, 15549071, 12958720, 10823772, 5360810,
      2363344, 6617613, 12394272, 761314, 7485805, 11908622, 6743454,
      5272088, 13124031, 4627896, 12272504, 9070220, 8134554, 1166983,
      4904588, 8400571, 6502054, 917321, 6515327, 7863503, 3112526, 3088557,
      2891101, 3250983, 9391056, 15788187, 16294806, 10640070, 9784866,
      2579715, 6778433, 3984743, 506751, 13590922, 15436865, 13227755,
      5324465, 1261186, 4943461, 14631389, 12061145, 15130012, 14804706,
      6308923, 1856210, 7565411, 1187739, 9286835, 3625446, 2568574,
      16688344, 10579261, 8622022, 560244, 1718696, 9398729, 10912388,
      13263284, 8411233, 14390795, 1771997, 13765604, 1116053, 13800854,
      6245092, 12752856, 16242424, 7759794, 7170556, 7262912, 16630625,
      15961480, 6302952, 10776034, 5437440, 14885348, 1697540, 13471843,
      10156226, 11687694, 2712904, 13610543, 15931046, 9231175, 10467434,
      7278943, 356079, 16410414, 10396240, 15708071, 7939075, 2523227,
      11062578, 6978204, 10141787, 16048164, 1884776, 9233973, 8037279,
      16068531, 10650607, 1542723, 1425250, 11163794, 14700694, 8258811,
      11949327, 15116809, 3218312, 10383840, 1265751, 6884444, 6762646,
      9020797, 10548909, 10229757, 10548983, 9156214, 1987834, 6788771,
      9987034, 6899693
    >>,
    \* random.seed(109)
    <<
      4690625, 3842248, 7705422, 7550481, 9181008, 969117, 1702897, 3819480,
      8425766, 8355735, 16045227, 5012509, 9440226, 15377236, 8705240,
      1311039, 13252833, 3949931, 7566213, 8489023, 4616881, 7181181,
      14075526, 11162299, 2803271, 15306963, 14919172, 5170499, 14823232,
      12217093, 9195488, 14749446, 8663207, 5313251, 1101530, 8758604,
      2907230, 10545119, 12959713, 147262, 12226249, 5657172, 10441308,
      3402100, 2303724, 10040422, 12149814, 3018522, 16597324, 6797264,
      14629283, 11121506, 11168052, 14468016, 7475681, 2420753, 7108686,
      6091156, 2572562, 3091874, 685916, 11547380, 16237425, 443031, 6656409,
      14804453, 6527126, 10670262, 8121196, 2035097, 16495464, 14121990,
      15337180, 4466868, 11574206, 3632771, 13153447, 7650458, 8826548,
      9648687, 10883485, 13729114, 13352161, 1901370, 11150815, 14786541,
      821896, 4474786, 7806603, 5906560, 9832920, 12824651, 11272473,
      8067721, 15628991, 494331, 13129743, 1011145, 7020552, 1270639,
      8035703, 5173761, 13094038, 16733324, 12695501, 3155276, 6055121,
      13668298, 6653834, 3816509, 10262323, 4276744, 8297044, 296358,
      11212803, 8282148, 14339166, 8616610, 7006989, 5218552, 9708764,
      15426631, 3359058, 9080454, 13644474, 9702819, 11719079, 10941988,
      10152135, 1899530, 5677215, 1852683, 1497024, 9704527, 4189359, 637958,
      4402763, 14641130, 12888782, 5792725, 9670731, 2408025, 14329812,
      5960136, 15600803, 2794050, 4506297, 10239665, 2575776, 4428792,
      12155962, 15324620, 7170178, 7853675, 13955160, 8619349, 7493115,
      8368235, 3833238, 14226068, 15837013, 1616333, 12494804, 4279142,
      13385595, 15023312, 11830844, 11775034, 15956004, 7279599, 14709156,
      11376073, 1141988, 994930, 1297279, 13811610, 694429, 3366568,
      12476092, 2188701, 8367430, 7494137, 11909752, 1706224, 1629761,
      14136053, 2953688, 10761939, 14782277, 167505, 10440511, 6662139,
      2586159, 12828292, 2009706, 2545114, 13428571, 14121759, 14082521,
      2725099, 1913511, 11653552, 16437250, 2628163, 2039352, 7885396,
      6549531, 11154713, 10457320, 2836905, 13626562, 5563884, 14714339,
      16268078, 337737, 11299182, 4238665, 3847479, 2319212, 937639, 1295799,
      5326615, 11248339, 963761, 2388862, 14076527, 7040544, 3499015,
      11410345, 10874447, 13043512, 15553432, 9033888, 390014, 11591523,
      12076448, 10924792, 14037353, 3856975, 4636009, 3761609, 4491700,
      16107756, 15394847, 4306789, 4421782, 15216519, 12271367
    >>,
    \* random.seed(110)
    <<
      15674314, 16625348, 6510142, 13331990, 13784851, 10068923, 4156781,
      6903092, 8087646, 11970773, 4590652, 10705265, 9093595, 11556925,
      1258150, 9132182, 6991844, 8408740, 5302455, 12505380, 672295, 1951307,
      13683718, 8634058, 15307579, 1356718, 2523988, 7416334, 10608031,
      218112, 8869357, 14969588, 7131572, 15925808, 9900049, 13304165,
      11092133, 3881152, 4657960, 4842511, 6085377, 6096492, 8510172,
      1814006, 16669046, 6829714, 15616158, 9366514, 13038498, 14685273,
      7682140, 4601212, 15245210, 15150595, 16423041, 11403452, 14823556,
      2131254, 3260493, 4333851, 6890864, 7916798, 3819636, 2970135, 7574423,
      3781536, 14332599, 1410006, 8302352, 5558997, 5526843, 4185408,
      2763536, 5132064, 2352101, 3398844, 13804920, 13200334, 15970885,
      4586643, 14911649, 3009960, 65378, 10010026, 4487812, 12461330,
      2360357, 208085, 7777318, 6736650, 3383248, 3550327, 8176136, 8503541,
      7569227, 5376701, 10593614, 12209068, 8633009, 15796576, 8425371,
      6184251, 753145, 5215685, 15814482, 6555359, 7165343, 8772935,
      14597409, 572277, 5430263, 7172005, 1519385, 1373545, 16629934,
      1443150, 8271329, 8844222, 2835786, 15896352, 16162625, 3058701,
      15570481, 9067474, 1854458, 585850, 15950909, 296460, 2198573,
      13314946, 2165054, 11853276, 2497848, 10929373, 14696438, 1956602,
      10169886, 11446885, 9322772, 16410057, 11727426, 16682128, 4937100,
      14177258, 1024431, 8668012, 1330802, 14218964, 3976733, 8456775,
      9827362, 13386850, 1231123, 197524, 751019, 12231313, 3377369,
      12091399, 181280, 11225153, 946271, 5334774, 2291106, 9272272, 2019463,
      1390298, 5592718, 16083706, 14259281, 61147, 11204261, 1739111, 115748,
      8246388, 1184797, 13815182, 5648922, 3153741, 7708136, 16678716,
      7621764, 6650782, 9041385, 14407988, 12104860, 4562874, 10653927,
      7531322, 4155710, 16439310, 4557056, 13656770, 16661526, 2864957,
      8773950, 3920829, 15374533, 10515682, 15572534, 10223954, 13602984,
      8164993, 10510199, 9297320, 12416004, 8347652, 4862014, 15997694,
      3459740, 4180212, 6553982, 8658231, 3159605, 7632345, 3047139,
      13156633, 1868508, 673916, 2958038, 2244317, 272654, 6798290, 2281326,
      9173439, 12333872, 7213696, 818134, 4928870, 11877055, 4402300,
      11850972, 4133047, 2805540, 6591367, 8006764, 3252069, 10106965,
      13098574, 15799059, 3665675, 10240889, 6391225, 2282226, 15469624,
      937794, 1105991, 2930042, 1099915
    >>,
    \* random.seed(111)
    <<
      13877619, 15916896, 3569572, 15454302, 15812852, 5301172, 8286597,
      3258283, 6670405, 6995618, 10354305, 13617546, 2845909, 10565140,
      3248273, 11709026, 7074029, 9379896, 3853801, 3075443, 11247945,
      7767874, 6983206, 13782517, 6434648, 11988271, 4659810, 6344167,
      3704217, 13527402, 12015697, 12157600, 15142312, 12962263, 5876051,
      8387406, 13489576, 555684, 5253528, 11371251, 12757561, 11432417,
      4005963, 14925087, 9541390, 7577228, 6835775, 1074634, 14611576,
      7132132, 12772405, 8525641, 1808446, 4918041, 1665939, 5684634,
      7718211, 14963619, 3611791, 5716848, 3991005, 14753646, 15957127,
      8393405, 15781566, 13485199, 293439, 11769648, 373109, 7056451,
      10518705, 8441733, 15898260, 11191479, 14906143, 15956321, 11626151,
      5047844, 12406790, 8305833, 8100647, 14443389, 8216999, 15739429,
      14375951, 9105935, 1803857, 11751546, 11447998, 12896910, 12071034,
      10376196, 2613151, 16248529, 12925474, 205267, 2827660, 8199088,
      16241091, 10996247, 12817629, 14703186, 7649288, 8962474, 9797334,
      15761073, 16339393, 274218, 6157679, 11619794, 3424337, 7440133,
      11568244, 2469141, 15152383, 15817762, 2617287, 9745506, 12820551,
      8971459, 6523190, 9905345, 11531459, 9480779, 8006703, 20740, 15946620,
      14138833, 9664373, 10074759, 16217230, 11583964, 16153089, 3599092,
      2158820, 12745087, 15738780, 12903115, 12723939, 13927435, 2408079,
      8975164, 9693834, 11611975, 4557901, 6178501, 794439, 7591028, 964535,
      14585723, 6089594, 12624009, 14666306, 10622543, 1218578, 14507797,
      9827085, 1998425, 14648742, 6974959, 6091167, 3752266, 12055424,
      3292198, 9957341, 9994717, 12774511, 13154980, 8079379, 1721441,
      16465754, 8731636, 6696545, 6654267, 3563687, 10799705, 2038389,
      5056325, 4312003, 16687774, 1979491, 7180583, 15786713, 16299535,
      2233582, 3176177, 14100670, 1495398, 12922292, 8031626, 7877835,
      4614414, 853520, 152331, 3395870, 14820664, 15699233, 3879931, 6945914,
      12575623, 13108142, 10185931, 2093361, 969605, 792140, 8931653,
      6043545, 4538358, 5880575, 15545696, 3445444, 15054115, 10745875,
      14260311, 9685544, 12947121, 9395689, 4517265, 5295036, 2979735,
      6894413, 6049400, 4506009, 10385963, 9270738, 2985367, 6517901,
      8612435, 10915528, 9521660, 16157820, 10916664, 5424276, 13820507,
      9939356, 7118472, 1601696, 6626946, 13915897, 12540289, 8926088,
      3156765, 9953721, 15427228, 9417109, 5118335, 1931766, 11077995
    >>,
    \* random.seed(112)
    <<
      8073978, 13974864, 11175094, 9727448, 10399083, 5013991, 11734709,
      7800959, 15137454, 7062335, 12613337, 11132614, 2727586, 6081599,
      3706473, 8829662, 7630170, 455499, 6545255, 9989158, 16155918, 3962972,
      12225927, 7651192, 7858102, 4407377, 5897878, 3274947, 3814678,
      12308222, 10113188, 11300984, 15499930, 11536312, 2807401, 12525179,
      7587908, 8731587, 5783320, 6837545, 10225761, 6694174, 4265165, 355318,
      1095029, 1148564, 11349750, 3740982, 5150227, 6678436, 10856599,
      13132373, 15222415, 1463085, 9762152, 16209700, 15305954, 13899745,
      13465298, 239329, 1061016, 15738867, 4116485, 4281054, 11111658,
      9435387, 8024796, 15908152, 79186, 14977225, 13782543, 4330831,
      10903362, 13424639, 7292422, 13980288, 8748301, 15116438, 2866056,
      4853751, 9228121, 7312941, 2383811, 8818533, 11140095, 10473284,
      15801002, 1670575, 3627884, 10466296, 4450231, 3942067, 9657408,
      11660221, 14697067, 9884130, 2837004, 7290460, 6565908, 3901508,
      10153879, 11727651, 2760377, 12476463, 1159165, 5281481, 12546375,
      11423168, 10439729, 1545594, 9734493, 1584360, 9155374, 5291809,
      1725430, 13106558, 8062282, 1692937, 8172470, 15810499, 8633136,
      8476888, 2736726, 4416430, 1142407, 78319, 8656793, 11694839, 11674103,
      20856, 11199005, 5579511, 15718782, 15192536, 6230355, 4650990,
      6561071, 7877652, 5544189, 13642390, 8473695, 3437436, 11231358,
      5209369, 14495613, 1402002, 1552674, 13325043, 9654145, 2253849,
      12869051, 15315270, 12576027, 6916719, 7228445, 12809605, 1198060,
      2309948, 5410994, 6789574, 10004079, 9262166, 13059502, 14475744,
      3652997, 6903790, 5455963, 6603827, 6163493, 2528361, 874870, 7256793,
      16315259, 8938548, 5904879, 13076861, 7403502, 687927, 16261931,
      9061483, 13116955, 13135001, 4609119, 5179600, 15787562, 14032705,
      13849110, 371547, 9477142, 14104684, 7417142, 8217275, 14242226,
      15776896, 15457111, 4706210, 11252410, 12975882, 5380218, 14121665,
      14629957, 647786, 11057685, 5019414, 15607237, 2916137, 13688867,
      13427181, 11608941, 5241931, 15030775, 15067768, 7404666, 7663723,
      10175326, 6960225, 12545832, 7674035, 7375419, 14806467, 2170650,
      6669593, 13898448, 3839958, 9003507, 9741586, 7647521, 2543030,
      8963785, 4780433, 4881506, 12864741, 14150378, 13741961, 4795570,
      11691069, 4113797, 3418972, 10550669, 2770325, 8197237, 4060623,
      5259697, 6000724, 1381872, 9540248, 7425553, 3538609
    >>,
    \* random.seed(113)
    <<
      512633, 10969982, 14556215, 13621400, 12114425, 4607851, 299874,
      8025889, 9226400, 5835962, 4004329, 7322711, 14793483, 522660,
      14320176, 1139897, 5060850, 2118232, 10041515, 5000042, 8303499,
      15973734, 4722326, 5078888, 7265990, 5683773, 6622688, 3250666,
      7842436, 6446284, 15972961, 5241908, 12259992, 14300337, 642438,
      8730877, 5911981, 2910222, 16239941, 10360348, 12765217, 3687373,
      10173103, 4491802, 10846738, 8286998, 11480282, 7763189, 2757406,
      4637713, 6822630, 11216150, 4659215, 11440391, 3220354, 3243289,
      11564115, 269090, 596813, 7471266, 3001983, 573870, 11911591, 9563421,
      14999228, 12557254, 5082701, 8890800, 14308140, 10335261, 13969032,
      2178444, 2576964, 482367, 15348751, 14109308, 2814380, 12697466,
      7913644, 13329086, 1401938, 8664379, 1593741, 8680161, 11137571,
      10092953, 14091647, 13153057, 1882934, 3601155, 5490985, 9105595,
      10251553, 14631863, 9965784, 5162499, 2338409, 854007, 11644861,
      7834768, 1766807, 11569588, 15655563, 15714727, 11188608, 9953782,
      11119388, 3967096, 15488331, 10424875, 3952795, 7940994, 3368543,
      1788351, 10508405, 13615737, 15003727, 12588432, 15624035, 2592667,
      13337568, 4660430, 10102619, 5194378, 6029345, 3999791, 13217931,
      1103316, 10666772, 2320896, 14733336, 2889169, 12677008, 4021455,
      8233935, 2639158, 10853849, 10030965, 3412335, 5213206, 4757789,
      6126580, 12829727, 4190773, 11828485, 258737, 465071, 6873875, 3440176,
      9867510, 7038342, 6832591, 9586823, 3079585, 5895827, 3567869, 6284627,
      594510, 15863126, 14353338, 6477169, 7586439, 7454675, 10028445,
      15748401, 15070674, 5475353, 9536986, 8858631, 7376646, 2815188,
      4237404, 14249606, 7773377, 13812905, 13053773, 3983486, 2702134,
      10477696, 3405617, 4046161, 8084160, 14054317, 3386230, 8309611,
      3011578, 4792546, 8197538, 16290778, 10948104, 8117634, 9053586,
      9455270, 10764889, 16198262, 4612710, 4893235, 15959641, 7608578,
      6424757, 15211798, 874947, 5976234, 15695623, 14366703, 10220528,
      10396289, 13330370, 15993227, 10353170, 9776153, 14863343, 14895854,
      13819100, 8184332, 12565536, 3759185, 16003929, 5806726, 15113843,
      8231376, 4489724, 10312089, 908645, 7683202, 14819967, 6096109,
      1712427, 4472501, 16758279, 8530989, 15408157, 11569473, 2406868,
      10679589, 3535717, 590533, 8678779, 4304245, 2416683, 11338475,
      10982405, 8164650, 8657245, 4891175, 11970488, 9843168, 14642246
    >>,
    \* random.seed(114)
    <<
      4042226, 9440856, 1642275, 5643025, 11172385, 16155821, 4084818,
      10507368, 10473429, 800675, 2575962, 8701739, 16455399, 8902588,
      11320221, 8678029, 4935292, 9758372, 1067844, 9017818, 14046688,
      13174533, 15061356, 6247820, 5666767, 11844011, 1783547, 13946034,
      16402845, 1568008, 15005635, 13361977, 7758949, 6630526, 1853534,
      10049034, 12609964, 15500409, 16286509, 8850941, 5057273, 14839606,
      6200601, 8827610, 14579094, 16508148, 12581153, 11285788, 15382165,
      7303030, 10433811, 7717353, 3873933, 8041027, 15951639, 10610171,
      13589058, 3755025, 14514649, 13815459, 5612850, 9448084, 5087811,
      15685245, 16348522, 11493617, 15521293, 15066939, 1663297, 16281838,
      1330539, 14551821, 2235880, 9663001, 11095334, 10843216, 4208857,
      5793692, 2811040, 12736036, 8712144, 13236857, 16156448, 3229664,
      8044307, 5756342, 1381052, 8871380, 2341856, 1678279, 5019598,
      14135550, 5593805, 1029319, 3513042, 7287919, 1378147, 4563759,
      5702053, 1469512, 3664013, 3955329, 3459057, 7403816, 1422983, 2453273,
      9504556, 7937194, 12695368, 6958867, 5905710, 6059659, 1829412,
      5804625, 7099314, 9559060, 1260602, 12771595, 2258604, 23375, 4391089,
      8437192, 15153567, 9078911, 946075, 10432462, 8169799, 626122, 237525,
      5363809, 5963725, 4508837, 16446279, 11850424, 14119529, 626270,
      7876439, 2346393, 4427711, 14068543, 4419848, 8534552, 9114844,
      7512299, 7364938, 14753001, 4433407, 5683116, 580241, 1960863,
      13113336, 12908101, 16764855, 16593372, 16139639, 2573343, 8512183,
      4568831, 6729871, 15743379, 1949307, 14125635, 16588120, 10883743,
      7341472, 8610163, 1170270, 16759345, 16266910, 7528599, 10933002,
      12804396, 12461382, 7206536, 9009605, 6935983, 3586919, 7747167,
      13447859, 10132696, 12502841, 16439147, 8566597, 12200328, 15778496,
      13182309, 3002885, 3003660, 16096233, 12805776, 9742759, 6807006,
      1866155, 12303332, 14040729, 14490772, 14463358, 1036673, 13756272,
      5645701, 7385116, 10353230, 10146031, 11120213, 10156469, 7423258,
      12024685, 14942180, 6975784, 10739480, 2019329, 5461934, 5650732,
      5853993, 5966846, 1794241, 728781, 1430125, 2945661, 289096, 11235861,
      6363851, 8670700, 5930305, 3164729, 16238581, 14225268, 2365489,
      801271, 5067918, 13546, 15194514, 11013978, 11810244, 15010813,
      13007544, 14391459, 7838466, 10741006, 5532886, 7578125, 5905343,
      4314277, 1096983, 15731050, 2345682, 11052596, 12907406
    >>,
    \* random.seed(115)
    <<
      15030747, 4752075, 3304020, 13042339, 1902177, 9015054, 1883085,
      5612254, 12655120, 14644231, 14394901, 9208875, 16633685, 4899334,
      11382627, 15384976, 10737516, 4768092, 11531270, 5694492, 8100536,
      1036046, 9177074, 9245039, 2408434, 2584402, 700683, 4775774, 14569606,
      13699757, 13450572, 2899670, 16187150, 8164659, 12418055, 15379425,
      9852666, 4094887, 2770154, 3072216, 14578817, 2438087, 8876676,
      3653346, 14558970, 16458364, 13101071, 2385799, 13187707, 15928934,
      10601483, 13920918, 13395182, 11626167, 7192277, 251907, 11973979,
      3391296, 8809020, 5526857, 10223459, 4147134, 16337069, 13154532,
      14916034, 10751373, 11994982, 4645706, 10051154, 14957703, 3909532,
      4247199, 14087915, 16604432, 6887170, 14401724, 6202378, 9231849,
      14457966, 3219424, 8009487, 11287339, 11710324, 5745247, 3105184,
      14649289, 12644806, 9984466, 15989574, 16115600, 10292752, 6753910,
      14195351, 12447502, 9607491, 11362286, 12068005, 12551810, 7464675,
      15906126, 5211531, 3158963, 15652237, 8791585, 10906555, 2282854,
      15522224, 10327391, 5577650, 8543583, 4314490, 9305240, 9050616,
      10672774, 9939183, 2899609, 974254, 11037840, 1352677, 7018010,
      10111800, 4460670, 432804, 597096, 2274894, 16744768, 15933997, 834232,
      16043054, 15968791, 15110050, 8608152, 4872981, 6980038, 16315408,
      11560612, 6303987, 4607543, 13571515, 15527369, 4959675, 6279036,
      15880321, 6981587, 2867540, 11528353, 1043691, 8553862, 3252828,
      2003842, 10146491, 16672225, 1162935, 5479267, 11174468, 15010880,
      13754302, 211120, 13535895, 4800385, 14024463, 9267727, 11461012,
      5725277, 8526752, 13034761, 8889996, 3093492, 4475346, 7308323,
      9069813, 16179255, 9957842, 9068663, 8363276, 11928836, 15001551,
      10941583, 13197848, 2991231, 5151022, 8748910, 14989502, 8418794,
      5600069, 7816889, 8570764, 15454182, 1756165, 2353439, 11413129,
      10613060, 999544, 14859945, 2597555, 15949779, 14640201, 1719659,
      15443826, 15663564, 8794036, 3998903, 13394568, 15310999, 8240793,
      8988690, 579970, 14997797, 2379587, 1539101, 10240812, 14104462,
      13341227, 6649082, 8177113, 4180600, 15720412, 12479103, 15381027,
      3237532, 460249, 7294633, 1510391, 14995158, 11210315, 7545018,
      15810698, 13334543, 9760436, 1490884, 12769776, 9703830, 10148375,
      8727664, 10899884, 3242865, 1334163, 13986973, 14075731, 5196276,
      13800468, 2911808, 14343167, 14030753, 16232323, 14904419, 12269303,
      9633608
    >>,
    \* random.seed(116)
    <<
      13780092, 12507586, 10063061, 9164112, 12115398, 5002055, 146464,
      12630654, 10842546, 2020552, 12375282, 2217636, 8065113, 16232096,
      8117408, 16035005, 4126346, 4598732, 6842584, 14800161, 9790267,
      7108208, 14517404, 15661374, 9611391, 1227979, 7582496, 1071875,
      5287702, 15991136, 12740484, 8662901, 5400465, 8325200, 957374,
      16190642, 9311804, 13577429, 8692294, 1765048, 13899325, 6773817,
      7367636, 2854519, 11470077, 9052232, 6107122, 2489335, 8243913,
      9311813, 1328094, 8600354, 7756960, 10436990, 3485458, 9467494,
      6798350, 9120797, 4456316, 16730728, 11893034, 13664827, 6279095,
      14639597, 6782424, 672093, 7088861, 13432232, 10591384, 80150, 6648436,
      11477994, 12753806, 11509824, 11741852, 3909513, 5677849, 12455057,
      9582773, 15456369, 10635375, 1711874, 345546, 11626120, 6898926,
      5270031, 4807061, 3867455, 6020327, 8080268, 6824198, 3008970,
      16100071, 13320300, 12576083, 13654515, 5049219, 12456358, 652214,
      11476780, 12444603, 6430441, 6428397, 1784883, 634842, 14852429,
      4901172, 908460, 2702200, 5325446, 16692058, 14371920, 4194706, 725837,
      8251296, 16058832, 636374, 2400846, 14545290, 4334418, 8470125,
      7550360, 314247, 10340705, 10074349, 15753981, 14354766, 2640538,
      7962146, 3780404, 9225730, 14277864, 15670687, 8269545, 7015490,
      12114184, 9403995, 16109865, 14798141, 7454613, 11181868, 6451316,
      8602322, 4871279, 5654688, 6494279, 10339989, 661141, 12828883,
      14734452, 12332978, 1758541, 3513655, 10585195, 5056360, 5974134,
      8933639, 5953030, 1904561, 5813363, 12951915, 7401655, 4478175,
      15245605, 4877473, 9835479, 4575037, 13042432, 3652500, 2939845,
      14046938, 7432788, 6258927, 4791940, 1452057, 1401561, 13404673,
      16061263, 13183050, 9629131, 1014042, 979945, 2292925, 6000388, 732369,
      13064151, 8505855, 14453042, 10781997, 3630127, 4368984, 9559139,
      13438495, 4413284, 2712647, 12532642, 5638603, 10795515, 7070957,
      4715568, 7155279, 8976492, 9236375, 124378, 9310738, 13699333, 2901561,
      8405053, 672623, 12007861, 6303150, 8308400, 6101776, 15966618,
      7363939, 6562019, 853021, 4809664, 14550255, 13140859, 1587520,
      14093239, 2082241, 11681481, 7490024, 14241870, 9759125, 1841464,
      1610354, 13665358, 14007533, 6198247, 8103978, 10473071, 11743347,
      8432114, 7326800, 7097353, 7666193, 427873, 6709343, 13427927, 6454015,
      3572954, 7082372, 3059350, 10832093, 2083521
    >>,
    \* random.seed(117)
    <<
      4028260, 3043531, 2758215, 3519626, 6708341, 14144714, 2661792,
      9370895, 6822564, 11773224, 1968735, 12011367, 8845654, 15901628,
      9500168, 5553831, 5852297, 7663800, 13598865, 11002861, 534600,
      2148457, 16364158, 6286583, 7287371, 1124534, 2751914, 7317064,
      6477957, 10764653, 7093312, 6953088, 116838, 2681621, 11797472,
      7127447, 10729742, 3058705, 9938192, 12440177, 10674631, 15384869,
      15194713, 2384235, 8110888, 12190150, 9233879, 7415893, 15788239,
      6516687, 14872103, 3891066, 2897374, 5761097, 1886273, 9896412,
      15159988, 1333009, 10444305, 10425445, 363302, 734978, 3523869,
      14723750, 5585887, 6251344, 6855744, 10957330, 4377995, 5495054,
      5170323, 6298840, 9324344, 5561466, 15371230, 4104679, 11772086,
      2480121, 15748678, 6187681, 115263, 4493433, 4793483, 9164603,
      14976727, 746405, 9920027, 7710764, 5492464, 207767, 4335989, 7409548,
      14232616, 675049, 16709469, 15448986, 10853409, 14634017, 12710471,
      7230781, 12399009, 3109732, 12601740, 826464, 7460532, 9048585,
      13686816, 7474456, 10738245, 15824995, 15418615, 9636844, 15069763,
      11617156, 4764355, 16184104, 8458583, 9012998, 6539199, 475950,
      1937233, 15169568, 4932104, 3421434, 16400413, 9865103, 6357601,
      4788006, 1919969, 13952960, 7490506, 14936679, 10499391, 4541991,
      13669960, 15612818, 5684781, 228674, 10492975, 3331803, 4364234,
      9568223, 16486603, 11814544, 7539984, 3677223, 13464933, 11729249,
      15258820, 12239145, 11906774, 14924395, 7772489, 1069609, 11693014,
      16172096, 9487700, 10190223, 11591639, 11600012, 16184325, 8658398,
      6192508, 6733146, 5503792, 596747, 4740917, 10567809, 7828567,
      10691664, 13859907, 10322751, 5508946, 3766797, 8666293, 5341322,
      16754914, 10206242, 4065831, 12416674, 1827151, 4575192, 905619,
      12109101, 12415578, 9512291, 1242843, 1853631, 5944110, 15479759,
      11298161, 12660814, 8088265, 9791799, 8853592, 6478268, 10082441,
      4640669, 129594, 6177398, 10312291, 14772927, 11041148, 12737781,
      16481878, 5885232, 7611156, 4194515, 8842294, 1709458, 1194981,
      3461147, 6810049, 11270335, 996673, 7270551, 9486199, 15522390,
      2477886, 13749466, 12780912, 733090, 3445635, 11942538, 2627242,
      7164592, 6206716, 8353660, 13532332, 15698568, 6557718, 10360370,
      16062056, 8440399, 11857132, 152660, 3402829, 8375073, 12674277,
      4511872, 2340674, 3993801, 12436934, 3595948, 8998945, 5776030,
      9924677, 1336916
    >>,
    \* random.seed(118)
    <<
      11928303, 10601604, 3062488, 5237354, 1661207, 11788003, 6077934,
      4931283, 12885851, 301821, 5096235, 5569527, 14861310, 441474,
      10197379, 8289686, 8519881, 16238617, 10203599, 5738313, 9551292,
      13425196, 8671559, 2450954, 13641513, 9787369, 11497976, 12097444,
      8623034, 14142394, 95688, 15325997, 3510035, 9468586, 2215764,
      13559086, 14736736, 14763563, 16086172, 14545953, 6327771, 4750927,
      12667151, 13262999, 1081201, 10454817, 14229374, 15134083, 1039801,
      9334163, 13792934, 13685112, 10781593, 6035066, 14703669, 5562690,
      12827107, 9720922, 7633413, 7283719, 1444839, 7542959, 3192283,
      4280598, 14376509, 14032052, 11220157, 10869284, 17514, 16351630,
      12933538, 7944706, 1325390, 7746385, 121056, 1110571, 15119892,
      2362684, 15346066, 4152921, 6055935, 6644180, 13352587, 14329760,
      3663545, 2776178, 3009839, 14189396, 13105974, 4607164, 4643475,
      2282784, 1363591, 16082862, 14562498, 4197771, 8641422, 3009198,
      12912970, 15442509, 14500857, 3539827, 10890362, 15015229, 2037932,
      16189631, 2988545, 10052224, 14462141, 15774796, 8678646, 15190967,
      3342035, 10559580, 12645456, 9162142, 14609420, 4585496, 2671715,
      2226702, 9665988, 5279990, 16044931, 7711732, 2168152, 15354409,
      12709838, 12929979, 6942816, 12992847, 12515229, 13730008, 1656316,
      13235755, 8932452, 14312745, 3700850, 2316549, 2013446, 2526506,
      13888106, 13077966, 991097, 12337989, 1866527, 12788853, 14558636,
      11383974, 2734770, 595315, 16227714, 12399253, 7478699, 3373298,
      11019940, 7643777, 10486411, 3428567, 5009936, 11777201, 5916002,
      5552768, 5590348, 13136753, 3109953, 12451682, 6507519, 2374753,
      11725234, 9664788, 874428, 3881853, 119980, 9880279, 4822853, 11738851,
      7788820, 589553, 2508467, 8142666, 934816, 5112595, 151251, 15005096,
      12941146, 15237545, 10748501, 8081648, 549693, 7277702, 2105024,
      9703281, 3135463, 12133298, 12028085, 13975934, 7072490, 5247872,
      1144976, 5944936, 8269329, 7110620, 16393939, 12320072, 9399218,
      6134891, 16355653, 12581417, 6428291, 10266728, 10863510, 5704101,
      9729818, 6481295, 10195302, 1168254, 14514835, 9081072, 6115141,
      5292232, 1863377, 5686217, 8875100, 10384941, 8737008, 16401203,
      6605008, 87814, 14967834, 16219439, 344596, 2447044, 11437186, 9055620,
      11605192, 13582177, 6533190, 9816191, 10487821, 16209522, 14513069,
      10610486, 11027213, 2023565, 14558303, 14040497, 4606986, 4419401
    >>,
    \* random.seed(119)
    <<
      15540950, 4798231, 3016861, 12390360, 13154831, 15628586, 9036972,
      11162529, 16411448, 12655251, 9281780, 12677942, 7259577, 1820698,
      1330391, 15165738, 7182015, 10580867, 16171538, 4082254, 16618842,
      2994491, 4246440, 15781949, 13608717, 4671782, 3538493, 7904082,
      9782713, 324523, 6802237, 11840168, 4292662, 14731332, 7221933,
      12582885, 12287871, 1025203, 11371565, 11048957, 5697207, 3498564,
      2191152, 7743826, 213141, 13566826, 15456673, 8728882, 8706057,
      12181586, 8270606, 15846265, 6987226, 15121397, 1809118, 774346,
      3962881, 3562019, 16305616, 8105767, 6406540, 7935784, 8985380,
      15815195, 15761375, 10115528, 10041502, 9221153, 3095863, 12929203,
      1051326, 107038, 2844844, 12071025, 1856027, 16470094, 2989418,
      10114590, 2661424, 14076062, 5496169, 12625692, 7864966, 5790270,
      6422412, 10206087, 6202198, 3436265, 8711933, 9243877, 3847043,
      12403125, 16144721, 16685727, 3970524, 7028940, 10622545, 2517823,
      6548125, 5136874, 9043317, 10727830, 59607, 334002, 16641160, 7553759,
      14639325, 6907691, 466155, 591573, 4506345, 10349276, 15483154,
      14254668, 12845681, 10725172, 9505121, 15608971, 13822458, 12616920,
      1941751, 4323441, 12452322, 8741170, 2825718, 5495237, 4731102,
      6433695, 15823791, 2823513, 5852382, 14292723, 9280491, 2581566,
      10911512, 15375696, 7338441, 10731098, 13543078, 1550501, 16016035,
      16687118, 9601923, 15306864, 6026707, 2274022, 13758305, 11567510,
      4443445, 3086604, 700632, 13843389, 14750802, 9357397, 4084901,
      10474166, 1076639, 14208662, 11394920, 11482839, 448258, 6871466,
      11926216, 2745260, 13895466, 2599756, 3561268, 16026864, 13819960,
      16556068, 10033705, 8893686, 3493339, 1106799, 2470912, 2137112,
      1965596, 4112997, 8319232, 8400987, 15241367, 4491419, 7644317, 205020,
      7706427, 12176010, 5777408, 12147205, 9927902, 14896861, 10414557,
      14270056, 4098164, 12154694, 3143598, 7404168, 660486, 3863741,
      11880728, 11222747, 9811565, 3600619, 1680126, 4427183, 14661052,
      14323377, 11797113, 52560, 342852, 8233638, 11271225, 575245, 598056,
      13330596, 7913573, 13475306, 15372915, 9980998, 10589131, 4864399,
      2654774, 4968071, 1858863, 15469565, 15742132, 6202815, 5685, 8898236,
      4345774, 4604262, 2561407, 14762925, 4827858, 10372391, 5979219,
      9392560, 13780861, 1018489, 6301165, 13432242, 8080729, 625470,
      13332377, 3151028, 8150438, 14461826, 2299756, 8179180
    >>,
    \* random.seed(120)
    <<
      8639225, 4158880, 3164991, 15859578, 15987336, 15018512, 10658046,
      12312139, 9892884, 11256591, 15777701, 7758776, 1530727, 5287266,
      13301856, 3588328, 3743804, 14392306, 4213999, 12128197, 5387573,
      6285117, 12406568, 2701120, 15793054, 1826970, 11848703, 11280516,
      5314886, 5019507, 2155058, 4733720, 4805563, 4892572, 3649737, 3199323,
      8426210, 15248788, 8536383, 12395677, 1939498, 7127080, 3502765,
      16077134, 14741731, 3351767, 11761201, 495565, 1592408, 72438,
      14547655, 15939206, 7532884, 14733607, 6446116, 6625167, 13507722,
      15053008, 11553103, 10121363, 7320384, 15052063, 6439506, 14087363,
      9130004, 16067289, 13997574, 13594709, 11881324, 6378405, 1474140,
      68560, 499930, 6590507, 6005333, 12313026, 4851959, 12127112, 13062635,
      11970574, 10195977, 3588881, 2333031, 6429241, 7068509, 15220018,
      9675291, 5448574, 8060033, 13021619, 4334289, 5845438, 11570642,
      7144374, 4715798, 4716987, 16680495, 11157363, 6357136, 4643237,
      8424143, 14551273, 13483088, 8510921, 5901098, 811030, 15118156,
      5436544, 9275321, 3697717, 9092739, 14750465, 3982990, 5626709,
      5537954, 16520966, 8845093, 13031624, 13743753, 4961635, 2585265,
      9177859, 14203937, 10155659, 15493029, 13278056, 1350435, 114059,
      10805763, 5646240, 3970059, 9972802, 1664248, 13523185, 16384214,
      14224662, 4153874, 2230424, 6952120, 10815567, 11814477, 923369,
      10212999, 2418431, 15122335, 7801325, 16365903, 1412490, 7830921,
      508307, 1806621, 9953173, 14036075, 3326409, 2528882, 9136963, 6106721,
      5511929, 3731099, 8099679, 13884434, 12888508, 3474878, 12920529,
      13628762, 8864539, 9248742, 9454624, 10237045, 10187265, 12507004,
      2431877, 5818188, 14212342, 3041803, 15218113, 12445767, 6632691,
      10594672, 389841, 7005995, 14987287, 3103045, 7929999, 2716185,
      5433236, 7508830, 14094285, 11360530, 11485034, 5042376, 11436982,
      251204, 7691402, 7726739, 6647770, 3902243, 5685628, 12537868, 315929,
      11804358, 46825, 8433752, 5138983, 1350448, 6398321, 11391807, 5066682,
      7810178, 11407770, 12805275, 12121314, 13313963, 16296915, 2395853,
      8609191, 4886654, 10699297, 9380745, 2117840, 1727303, 16085827,
      2802778, 13627523, 12066645, 16290174, 879674, 2864555, 4141115,
      104996, 2253693, 8973132, 15161034, 8981114, 11929345, 133200,
      12694978, 8412409, 13745263, 5735782, 3739746, 2054356, 13721107,
      13932093, 6003900, 11059136, 6524547, 1484556
    >>,
    \* random.seed(121)
    <<
      1464675, 3659979, 9794674, 14652543, 6673162, 10497754, 15345462,
      2960331, 10309283, 13406156, 8766507, 2974523, 15739868, 5544952,
      4792919, 3097466, 14237034, 10689275, 7082248, 978459, 11341802,
      12189321, 16251381, 14631799, 13535147, 14332651, 10145280, 7246113,
      13515145, 2188446, 409326, 7896151, 7190797, 16299190, 14421301,
      14887325, 12633300, 5694411, 7568490, 9869797, 3847633, 2504919,
      5823680, 3074768, 7209915, 13177354, 1936972, 5375815, 15718545,
      3958180, 10870610, 7168640, 8887668, 8195500, 3054547, 10939951,
      5409840, 1882552, 6921014, 372115, 2440615, 14812989, 5610878, 7731087,
      6142943, 6247155, 12356726, 10114637, 15219675, 10256627, 148613,
      9403401, 2293133, 14539843, 14346730, 13661678, 167264, 11660573,
      4331402, 7175265, 9453261, 793842, 8934825, 2530834, 3643724, 16668029,
      12640428, 13361002, 11953856, 3129203, 91606, 3459540, 11945328,
      15624052, 6320720, 3325862, 8263669, 15586916, 9679380, 10222223,
      10923147, 2083690, 13459968, 220407, 3033379, 3952272, 3199554,
      9821039, 3444905, 10626374, 3056341, 299860, 13238595, 14525535,
      14418539, 12812393, 6087534, 6301749, 11533069, 6648036, 13282478,
      1484688, 14455949, 5765060, 12920260, 11988631, 9764420, 7592113,
      13403015, 6484837, 5453136, 4320775, 9971632, 14959879, 4547148,
      11008770, 6789142, 16076081, 6365212, 6505270, 8343991, 13008206,
      26853, 6082428, 7336417, 12170952, 8342271, 9681429, 15255825, 3179888,
      11899821, 8301499, 2532071, 10931281, 6588729, 6503844, 12683441,
      1994696, 1400444, 10621766, 14497550, 15222759, 789001, 1261213,
      11307833, 8746703, 9484058, 13490855, 16073042, 7978020, 6200321,
      7921447, 5183286, 14602259, 3014782, 11140923, 4656391, 2399272,
      5320098, 3627585, 9711739, 11440255, 4672905, 3803227, 3016240,
      14749467, 14540692, 10885196, 1151451, 1190021, 16037755, 12494913,
      4335262, 6917413, 12834963, 11841952, 12323964, 6385139, 16021620,
      5400298, 12926018, 12158234, 149825, 6007746, 12752873, 15566686,
      16262456, 13449273, 13222646, 3271662, 8713014, 4498041, 796288,
      1042117, 369448, 16589872, 4129038, 15013584, 12111846, 6214043,
      2602594, 10503415, 9408903, 10505369, 12607224, 14806528, 9517498,
      4005290, 12236634, 4781983, 13432485, 11918914, 12145352, 2089512,
      110484, 16291262, 11097438, 9306898, 9638955, 6840500, 13771047,
      8381218, 4330203, 1075343, 2400475, 3478886, 856578, 12541911
    >>,
    \* random.seed(122)
    <<
      8556690, 3574595, 10015965, 14628480, 5071721, 15259586, 15603341,
      1190917, 12242968, 6149701, 12767703, 3694428, 7685683, 16335674,
      14018122, 11225657, 12312061, 16359162, 9941411, 2688913, 1778521,
      5089923, 7552146, 12019684, 16280049, 4054684, 9363115, 6673948,
      6349429, 12187876, 10541524, 15826745, 2384596, 12945874, 5514197,
      4702819, 13075132, 13517394, 7906609, 1243654, 6495287, 13549258,
      16332263, 2004640, 8750560, 10730523, 7575095, 10388603, 1373648,
      8782139, 9999836, 15299923, 8285612, 15193354, 4733154, 6199323,
      15637530, 15630171, 10448324, 658913, 9053752, 14536038, 14453213,
      5279921, 6647140, 7330228, 16397566, 2476086, 11510814, 6172618,
      6417892, 1206229, 7645145, 1389866, 16243615, 16262879, 10205297,
      370050, 223590, 3285722, 14298087, 7969170, 6950850, 13243392, 5030125,
      6135256, 8129473, 10287615, 3431283, 55660, 11182499, 3781967,
      10381517, 6050371, 7739990, 1723488, 8071227, 15115183, 5599361,
      10123672, 11622992, 1698842, 13985939, 4132416, 852213, 7459596,
      10583077, 16168122, 13520991, 13541745, 16632427, 1787634, 13034549,
      6163957, 15985818, 13158830, 10704769, 15484003, 14223828, 1545223,
      12390624, 4885623, 4212240, 13312880, 12008986, 15142601, 10398621,
      14808963, 8930103, 14264086, 4008248, 14311785, 15819399, 6721547,
      13573824, 9846090, 13187893, 10155188, 4072760, 3429009, 2845381,
      11779645, 3091400, 11814981, 6377389, 6119034, 5706160, 7941498,
      12508014, 2923945, 6700372, 12752572, 16685055, 5461491, 901904,
      15127871, 6652118, 16725446, 14698628, 1810616, 8414945, 9516065,
      11269089, 13366299, 14232139, 6958836, 10651643, 12284565, 2869500,
      14412913, 855239, 8155298, 16440135, 3015503, 6918280, 3081677,
      8691693, 2435711, 1839305, 10296938, 8476203, 1488473, 5932414,
      1689075, 2758297, 731112, 11382697, 7506278, 11395296, 13517057,
      10191743, 6809374, 13961740, 12760941, 16236849, 5816239, 14249329,
      11372502, 1191845, 5064008, 8794524, 1480590, 11176128, 16203230,
      14930500, 10759396, 9066851, 1551196, 7550537, 16529986, 4846939,
      4125412, 3790400, 9480511, 14013994, 15461452, 290637, 978759,
      12398244, 8525604, 16355991, 5892280, 905940, 155132, 3079266,
      11655391, 4719905, 12059561, 13671660, 6203576, 13673293, 9088249,
      15405688, 2006408, 10214435, 15578281, 8734981, 13324662, 8200880,
      7513242, 9357300, 13443207, 12310521, 10926908, 4908240, 882420,
      15183777, 5716905
    >>,
    \* random.seed(123)
    <<
      878515, 4490877, 1462749, 12900947, 6832383, 4472030, 1806910,
      14067754, 15119608, 14677140, 640112, 6360650, 8995977, 9434142,
      5573352, 5717645, 14295641, 870765, 2678690, 2265888, 5657556, 9411380,
      5600174, 11772401, 4113158, 2747719, 28027, 15198573, 7319493,
      12978652, 1469910, 14740970, 10026055, 6334989, 1172340, 110646,
      5292523, 12281580, 7521590, 1711892, 15190068, 736309, 1556331,
      11192721, 2385301, 2118118, 13255205, 15210357, 356280, 4895617,
      15286569, 7224899, 9620191, 8001446, 4451359, 7873424, 14056583,
      616450, 12898235, 5118680, 5762338, 8752174, 13446881, 8102745,
      3470576, 13778659, 10215689, 10716556, 8842850, 9476007, 13578447,
      16115581, 5289238, 210522, 6681327, 14981069, 12906361, 10840674,
      8602553, 7287799, 11489661, 9034856, 10709790, 13362508, 11184659,
      10007685, 14933375, 13983990, 8156016, 8734369, 11215069, 7037979,
      6283430, 8557491, 534208, 14216036, 12652926, 10828876, 3044476,
      12177370, 13760507, 1385961, 15328434, 8168912, 11040652, 4393739,
      2854255, 5618698, 5652515, 9297994, 6563134, 14829659, 1229615,
      12131828, 7663279, 6503782, 9616171, 13065065, 5638924, 273607,
      3171931, 9834833, 1479033, 13951997, 10541418, 6098775, 215236,
      15034894, 5904131, 16736154, 3844159, 6806832, 8925436, 8405513,
      12141056, 13825950, 15253060, 1002040, 10717299, 4826843, 16639527,
      8301022, 16174228, 12820939, 10569490, 12084557, 3915352, 9129659,
      8117009, 16452989, 2979461, 2579692, 16642289, 8998963, 7457471,
      6351688, 12610597, 7739263, 740376, 170323, 2260354, 7656120, 3240971,
      352468, 4301046, 13403131, 5906377, 11491828, 4562225, 16016740,
      7285817, 10641258, 7052425, 5961, 1822355, 10361350, 1050400, 8561753,
      5956942, 11862372, 1489630, 1390923, 7267895, 15057206, 143633,
      13350210, 8989249, 6332708, 1232856, 9170139, 11646842, 10655094,
      6781472, 488835, 16531399, 5409946, 4404690, 16035094, 7927414, 554170,
      12596584, 9421886, 5617524, 6946968, 5844628, 399167, 10722787,
      10671717, 16268632, 2749090, 14829047, 16159487, 7030288, 1077877,
      12041308, 14591505, 11392601, 2415653, 6242963, 11219945, 3942032,
      12484161, 1314939, 13837125, 14745645, 10528074, 958972, 12718185,
      8702276, 6496282, 9018363, 5136575, 2451809, 15329713, 11004708,
      12959584, 15364963, 4885439, 13021350, 14020297, 6530686, 6182205,
      2121813, 8974477, 16356603, 5666073, 8675556, 2005988
    >>,
    \* random.seed(124)
    <<
      16119226, 4660844, 9198197, 96246, 2970900, 15894473, 16198236, 994689,
      6982493, 4688567, 13212653, 6109642, 529984, 5314608, 2776211, 6668089,
      16241121, 5219036, 13682279, 7065632, 364988, 9110956, 7949514,
      10347311, 7139948, 299028, 3845454, 3665148, 1699764, 6763878, 5302456,
      3501838, 2378959, 6505521, 3208248, 12899105, 14495150, 10888759,
      5979970, 9020584, 4955008, 12663310, 6688373, 2855068, 1779276,
      7621900, 15101464, 11849292, 8607707, 10152880, 11109158, 15658879,
      16584369, 11979621, 1880301, 6457722, 9537016, 8974994, 8039804,
      15635972, 12896014, 1846278, 10180384, 14797253, 7470706, 1508084,
      2214014, 12571161, 8945653, 6453751, 13278360, 4172463, 15906180,
      3089109, 7636894, 12141896, 8598702, 640822, 13437748, 10851314,
      7509658, 10686798, 6786339, 10710851, 12351908, 5898826, 14804666,
      9919306, 12918494, 7753088, 15612939, 1340843, 2900689, 1049838,
      8912715, 15189459, 1034008, 13341377, 15737500, 972929, 3944287,
      8938796, 8801998, 1689205, 11628691, 10329572, 7883342, 13282312,
      7921058, 10163233, 7926050, 1359727, 9721168, 8076367, 10748290,
      10828751, 12203030, 476148, 7881281, 3994899, 6738973, 11470115,
      2662351, 3671721, 355259, 13358579, 5246238, 8627765, 16001958,
      5994505, 7921037, 7339260, 2597202, 13654795, 7957270, 12708150,
      12317254, 8411831, 13906191, 5338459, 6165532, 1226189, 10203125,
      13673142, 927300, 14087267, 14053933, 4211686, 6560206, 1484349,
      1900134, 6559316, 3444156, 8438425, 13669944, 10316777, 14916779,
      16695113, 3378487, 7122884, 16223166, 10730494, 3768285, 12834668,
      1185015, 1377487, 528074, 586300, 2731149, 12326555, 12045054, 1838812,
      9548910, 2867881, 15354036, 1553320, 3483440, 3391543, 2834458, 614206,
      14362033, 6885102, 8044848, 13239444, 7912257, 15456406, 12759111,
      12249722, 19609, 10919221, 887643, 14213510, 1478249, 7789850, 5974089,
      12702572, 1547596, 1235300, 8938140, 7180500, 7030796, 2983935,
      6052892, 3681353, 4288045, 9382837, 7326229, 13537407, 12780691,
      3899156, 16021233, 7362167, 16431964, 13463558, 283601, 7231573,
      10554416, 8772149, 12399136, 11382066, 15567084, 8780525, 9204766,
      5967266, 3983485, 5743441, 7406388, 8553684, 15904408, 14717728,
      2268294, 15297767, 8543049, 10629532, 6194867, 13796150, 5469341,
      12197262, 1327030, 2095153, 7591109, 1450239, 9811756, 14006891,
      13444167, 12038518, 16082139, 10381624
    >>,
    \* random.seed(125)
    <<
      15100471, 4073474, 3733472, 13898751, 13556774, 10043764, 5048947,
      9516032, 12367833, 3042615, 5889951, 2529829, 10192296, 5134309,
      10317513, 10600648, 71476, 1264292, 11891026, 10732544, 2596645,
      7877494, 8462667, 11219803, 13879867, 6993035, 10666158, 1679940,
      12606827, 4320367, 4925842, 2645962, 8219289, 15094325, 3134121,
      14548655, 8226903, 15666321, 2408513, 15156238, 15523616, 830389,
      4660542, 11868563, 10168278, 10613257, 8968556, 14258141, 7199966,
      466650, 14970096, 9905093, 10734714, 11933147, 12907371, 11673873,
      2989587, 14316984, 2703257, 1058895, 939241, 7190969, 13165741,
      15402154, 9960865, 13184179, 1451535, 6317524, 7799606, 10640531,
      8752969, 582356, 8088049, 3302516, 10466440, 1964740, 16289087,
      12144988, 6248057, 9515690, 10778420, 7088742, 12830506, 3929846,
      13989835, 133131, 7157604, 13515769, 9075918, 4073454, 12325682,
      5572227, 10995908, 8211164, 12872678, 16196680, 9517508, 16191565,
      3947400, 6803925, 10131133, 11340753, 8582898, 4569990, 11638772,
      13810297, 7671829, 8890489, 9605744, 14113097, 12503186, 11143222,
      5041892, 8842860, 6201764, 1205369, 1682593, 792773, 7115417, 4382766,
      3111096, 7641610, 10314820, 14219802, 3006051, 7560849, 5795175,
      10684390, 7065330, 2792591, 15715697, 11637416, 4891104, 1885410,
      8538877, 4150034, 9971276, 6051548, 11467593, 5345071, 15670638,
      15190476, 9834225, 6452763, 382517, 2053929, 4000094, 9349195, 2942192,
      3202181, 12394344, 13575008, 16069337, 1309238, 7822639, 9827548,
      9574479, 3236431, 4520260, 6127349, 11536009, 4438866, 4249849,
      13969365, 11064581, 8983596, 5403896, 12977759, 10110168, 7621037,
      15273506, 6887449, 15762240, 11215014, 12496347, 6864335, 3593779,
      9476104, 9650294, 3460875, 7626055, 7783296, 8841663, 8914521,
      13422260, 4479379, 16530745, 5720425, 4044482, 16193322, 8819097,
      771071, 16382333, 8463120, 8039942, 6888980, 7723904, 13078281,
      2798077, 10230941, 1224558, 8553333, 10109092, 5844066, 3805410,
      1262297, 12770185, 6605605, 13273275, 2783144, 7743701, 7506228,
      2654376, 564110, 14951781, 9704490, 8184138, 6506705, 8842599, 6890152,
      5883759, 9033361, 7056511, 15526743, 8763901, 1150055, 13011839,
      1803446, 6903590, 13442671, 9398471, 68575, 14841348, 16517619, 339672,
      9864821, 2423109, 11593778, 16372750, 12906819, 5482154, 7904545,
      3218273, 317543, 15381201, 9269184, 15772236, 11106262
    >>,
    \* random.seed(126)
    <<
      9606243, 1010283, 9698302, 9990429, 7656236, 4152237, 10823471,
      2940432, 7916262, 14767938, 7932499, 3841754, 2634775, 11363606,
      2230499, 15356284, 10507216, 8167870, 1482087, 12450669, 11339917,
      4973264, 9043671, 2372127, 6017953, 3360535, 12841111, 8354308,
      6482393, 558728, 6995699, 6827504, 13420425, 4680799, 8037293, 8213393,
      8655455, 16138576, 29651, 13273214, 10553555, 1108632, 5063081,
      16480288, 2940094, 4077314, 10614694, 3621070, 6711689, 6317439,
      4102723, 15437021, 7079083, 981575, 4192643, 12906364, 6834977,
      3438370, 12432068, 16411426, 366344, 9216228, 14690736, 11617044,
      10991929, 2388624, 10729322, 3272577, 2566793, 6945856, 10699150,
      14438239, 116604, 15696268, 9504698, 11777606, 6168130, 11903392,
      15457880, 12827549, 1522960, 3058579, 8325284, 14871633, 9601092,
      13982055, 16158852, 5496462, 7558740, 6895880, 6838755, 12173916,
      8744877, 4371602, 13243346, 14069031, 11961276, 610768, 5993963,
      13405054, 11893764, 389435, 8221995, 11403653, 12081245, 2555729,
      8166285, 11924511, 2670503, 14228665, 3115226, 13123404, 15927545,
      15943901, 508880, 8924045, 9890393, 1249861, 12960067, 5118809,
      6620852, 4790632, 13487998, 1208701, 8655665, 1159663, 15930589,
      8245974, 14386483, 2921446, 1673872, 13680711, 12257028, 12898861,
      5435849, 7141851, 11757309, 15237187, 14112971, 3567932, 11451944,
      2259232, 14002551, 9007287, 7050424, 6688213, 6324789, 13615148,
      14828596, 9612575, 11940578, 12682778, 9765541, 15968860, 16291383,
      15032713, 10014377, 16134390, 14280749, 15685067, 4144672, 15385455,
      5822703, 11900314, 8237276, 197784, 16543535, 12592025, 16524781,
      5621226, 9142874, 11889788, 11348044, 5558288, 12375518, 16611671,
      9020691, 9714889, 12291767, 4899718, 7093329, 14527751, 9576146,
      2052583, 14475957, 10362824, 13789086, 3186588, 3151862, 10323135,
      8679114, 6547433, 9584837, 5788064, 12223651, 10603500, 5641682,
      9291429, 10355292, 14631876, 16620906, 6479889, 13551926, 12018201,
      1429553, 5202773, 374636, 9835922, 2814538, 9029542, 565233, 14449037,
      1721947, 651531, 12106773, 14705336, 16628043, 2790702, 4334499,
      7754377, 1894332, 6612066, 15516222, 3718577, 11728506, 14686606,
      10035675, 14609424, 5303848, 4597778, 5269438, 222161, 13359425,
      11811595, 14587710, 450392, 2749033, 11754763, 3280921, 8649688,
      3517338, 13812030, 1050357, 6600187, 14093116, 12026439, 7757210,
      6466664
    >>,
    \* random.seed(127)
    <<
      747857, 15306943, 10467353, 9739120, 9463208, 13799400, 1645361,
      395383, 500567, 4499816, 15772677, 3406250, 6847198, 3803730, 5019634,
      11320555, 11206551, 14584581, 15673212, 15484446, 5201975, 6398486,
      15961409, 1043221, 5246574, 4930350, 16120976, 8957563, 11845510,
      13892602, 2085489, 15730684, 15476831, 6344149, 1803633, 13527304,
      1508182, 12334810, 9934246, 6213323, 16376619, 5865186, 363161,
      7937908, 15954291, 2968927, 12291356, 10183571, 11932515, 16427631,
      6250757, 14191160, 6322642, 11571592, 4746382, 1936536, 8484839,
      2043627, 4286576, 10363798, 1623053, 4215912, 6212478, 8795670,
      1002791, 4375144, 12047479, 12178035, 3428236, 7204770, 4735374,
      12576775, 7210012, 3311448, 12090401, 11086147, 14018300, 557154,
      13861193, 14229554, 4236147, 2666794, 13713253, 15075024, 15528680,
      13617346, 9589691, 14250841, 15749972, 11559914, 10843904, 10110109,
      4081388, 14905213, 3769832, 15091722, 13407053, 7400891, 3286690,
      6781720, 15961312, 13747835, 16333570, 13630463, 12519183, 11807063,
      2474485, 13004620, 1357951, 7482214, 14257682, 9166525, 3698068,
      1627971, 4870820, 11749723, 9562901, 13446957, 11394358, 3489303,
      7082174, 9755093, 7248905, 1946487, 9663688, 12926014, 9339474,
      16346748, 10330284, 12028201, 6343333, 16456732, 98478, 7832984,
      1805116, 10504895, 4005106, 1749069, 9264415, 7163730, 4749310,
      3448346, 3267856, 1149912, 14604684, 6301846, 2564099, 13080947,
      14326201, 12817772, 10044244, 10718089, 10107685, 15654866, 16739184,
      10218235, 2322760, 14519124, 11771385, 13325937, 12842196, 4947530,
      16023761, 15164199, 6379584, 9702337, 5093746, 4763833, 4768413,
      16327521, 6022137, 6503666, 9363354, 15094533, 7710357, 128750,
      2613692, 16274310, 978001, 8495020, 4031366, 16479004, 4163918,
      3798464, 767483, 15834574, 57455, 2648343, 5498311, 5640134, 14579901,
      4047217, 8853252, 667145, 11227902, 13542161, 5572274, 4228969,
      15977821, 15079240, 11717336, 4340397, 442980, 845481, 9381632,
      14467401, 3601166, 464586, 1246753, 13876397, 15692023, 14943046,
      15171055, 16261267, 9442330, 6418576, 15201300, 4553054, 471091,
      7995884, 14261740, 5302286, 6321512, 7754516, 3851250, 4211361,
      4386901, 15841891, 7749275, 8625494, 13230974, 15511996, 7816144,
      3094841, 15832747, 4031364, 4779517, 2870599, 35933, 12639596,
      14241142, 8496304, 7341285, 1719013, 12235783, 12540974, 10847570,
      11616301
    >>,
    \* random.seed(128)
    <<
      15771154, 14251192, 3970296, 6805892, 8581736, 6106497, 2248854,
      8106714, 482766, 16529276, 2587212, 5345534, 10703523, 9051538,
      4221338, 10554628, 11210349, 9661767, 11964316, 14969525, 9309392,
      5041456, 1115203, 13014089, 1883205, 496004, 4881099, 12761358,
      6239327, 2061944, 15278485, 13993122, 12028255, 10812082, 7401411,
      15254612, 2777557, 16295908, 6702037, 8725653, 15403267, 5973141,
      14100282, 7892335, 5444334, 8278569, 5377903, 8840387, 5839851,
      6934751, 11381880, 5165853, 14138311, 4265760, 3311163, 15308459,
      9494844, 14064623, 43060, 2370657, 9442156, 2505438, 1111596, 1267172,
      9647692, 7712972, 4464507, 7472538, 12814381, 8408844, 6336382,
      5363835, 12365744, 13484299, 9523168, 7101916, 5722054, 661719,
      13441128, 14018825, 6756275, 12383710, 2366924, 7600011, 124807,
      7263661, 7522157, 8902391, 4595158, 16305058, 5316230, 8144735,
      13543303, 6635753, 12865642, 13153853, 15703715, 9277579, 6920647,
      3752997, 13773165, 3783750, 7089248, 2785422, 11299611, 354222,
      8287844, 16526166, 12986927, 1895823, 15323103, 9512221, 4328089,
      795147, 10991639, 4896831, 15417294, 1218270, 9170338, 13226545,
      3141279, 14310338, 13262159, 14596498, 10185510, 14663526, 10935932,
      8783295, 2582780, 12689204, 1886486, 8796601, 1167099, 8763203,
      9244994, 1260802, 14968106, 3858917, 12654021, 10752598, 4833096,
      6525110, 5885226, 3312345, 1110282, 14157918, 514705, 12725549,
      14800008, 13051414, 10009233, 8513835, 3622469, 6118159, 2974611,
      80907, 10913202, 7837711, 14957892, 12886506, 10896642, 8784346,
      8958178, 11485497, 10043544, 7574184, 15364887, 14778846, 11992721,
      15977377, 4343094, 15055889, 802387, 822033, 16038576, 8230939,
      1586996, 13066791, 9302432, 374525, 10060699, 1809784, 14640599,
      11094535, 13234980, 2762252, 6570252, 7383989, 14347020, 14142387,
      1501538, 13260117, 11824991, 14670207, 16713061, 10816081, 14649947,
      14615838, 11998364, 7760618, 7987109, 7279732, 11802610, 1798165,
      11751127, 6655328, 13460672, 7122019, 14671557, 13565394, 11484062,
      5347759, 3066413, 3814179, 9007876, 3975333, 9886944, 475966, 1047359,
      2559606, 16030134, 16123521, 5815521, 8016452, 12798455, 14685917,
      3999980, 7638852, 11871923, 6695716, 2607972, 6912816, 2918295, 951759,
      3793904, 9516798, 5900516, 10465183, 3736596, 4540490, 2296032,
      5408408, 16052467, 383265, 7984907, 15885487, 6073444, 12020819
    >>,
    \* random.seed(129)
    <<
      9833088, 14563104, 13120270, 8730400, 4560001, 774661, 14837255,
      15308028, 14904255, 11656193, 16024192, 6690781, 10584202, 3769860,
      5526432, 14517390, 13757761, 3898759, 1876900, 11874413, 9201792,
      2569547, 2291845, 11375545, 13212768, 4616587, 9497883, 3893152,
      13114996, 15787161, 2322190, 8077451, 12247368, 9989002, 13331809,
      7676939, 2249806, 16078863, 1743487, 4346375, 1296265, 12803184,
      4375320, 12565933, 12242243, 13349190, 1562970, 16766958, 15674178,
      15100097, 7086506, 708824, 4035330, 9730634, 2936174, 15623429,
      1645111, 4047156, 8124954, 13080149, 884219, 4238523, 10378219,
      4953121, 5484086, 15425969, 2457541, 5254216, 8087004, 8539856,
      10399722, 13251716, 14215512, 15941349, 1701551, 12136431, 8444166,
      11833353, 2444429, 3175680, 15313330, 12667899, 2664003, 8460091,
      7471911, 3088732, 10630002, 14879134, 12502027, 10058776, 5733615,
      4836734, 14983160, 10119448, 6149618, 10143527, 15323999, 7370668,
      5484755, 13152882, 5916598, 2511813, 11172832, 10682556, 8739348,
      2972731, 6441680, 14734976, 11318446, 15592227, 12616194, 3625301,
      136779, 3804521, 2608001, 3543450, 4484527, 15990348, 15388399,
      3699294, 9079409, 8481385, 1431768, 11225543, 10472577, 7002852,
      2658969, 11154794, 3275290, 31963, 15667338, 736003, 6094085, 6584404,
      2962538, 199990, 2466193, 11961719, 8553044, 3115136, 9479546, 4931371,
      6294194, 11384185, 4363022, 6775554, 6443757, 13459320, 14403695,
      6480168, 5206504, 9483089, 3898718, 8433739, 3467226, 8031183, 362606,
      10350725, 6267804, 6519148, 9784321, 11917416, 11546121, 8905067,
      3223752, 12363450, 7490715, 13636850, 15467523, 16483578, 7936559,
      13187246, 3537740, 5067120, 1964012, 10651250, 13823071, 6870490,
      11025679, 3296757, 1956806, 12990201, 11041165, 8350043, 1882616,
      10369284, 7392233, 14595913, 9485146, 14390841, 7471660, 4495273,
      9422452, 10552917, 1240610, 13090210, 1960568, 12024620, 4132486,
      15025842, 11806455, 9080525, 7021905, 7043532, 11616290, 14303274,
      10508281, 5612200, 12021371, 13995135, 15187198, 10487561, 9234926,
      5910858, 6005518, 9911172, 4236768, 4140053, 10957370, 7669218,
      3013837, 6082139, 15888425, 4494551, 15621855, 8764408, 11117338,
      9234336, 16115366, 9468250, 8982097, 16621911, 16561216, 2236702,
      10992207, 7867409, 9374626, 101715, 5362183, 13414367, 16108033,
      8641107, 6825686, 10095187, 3579367, 435693, 5781362, 15195545
    >>,
    \* random.seed(130)
    <<
      8720426, 7138106, 4585576, 13162001, 12428539, 11076280, 13383594,
      7384486, 10858968, 7698691, 368037, 6012314, 4026750, 9750145, 5677301,
      3723114, 16380675, 5698407, 11044519, 15832185, 8872530, 14826851,
      11245106, 12060774, 1769821, 9367580, 11465321, 15954146, 10961570,
      16556049, 3513768, 13777234, 6022832, 352610, 6947971, 463258,
      16041533, 12627655, 6224467, 2452722, 462803, 10983515, 13658302,
      8376892, 14499927, 7117048, 5710426, 8197432, 12175490, 6296757,
      16435370, 13519396, 6601715, 1355148, 11133069, 772556, 9186034,
      13128808, 9195352, 8792931, 9023783, 10678007, 14165295, 2239429,
      15443375, 8541188, 15617534, 11813331, 2173596, 10406371, 14343334,
      4988827, 1942859, 15311172, 2598791, 14151269, 2518609, 13222024,
      1448224, 13626008, 7375387, 6753848, 1736006, 4725764, 7329514,
      12986554, 14927385, 14677725, 6903917, 13800608, 1337505, 6130584,
      12704064, 14381661, 8773989, 13250694, 3090400, 2592938, 5683490,
      2046933, 4301838, 7287681, 9423359, 10478743, 15476318, 6761281,
      3117556, 11816673, 7333933, 16554744, 4509105, 7152516, 10590214,
      12964363, 14888050, 3793826, 3641933, 2405364, 2324858, 8432292,
      5742335, 12920836, 9164553, 13635254, 7540799, 12275635, 10277872,
      12287065, 3852693, 13625884, 8788637, 13157131, 2416355, 13421469,
      9821913, 14517472, 5064178, 667692, 13576998, 5944755, 8418282, 671011,
      887658, 16595136, 10396755, 7063693, 5391733, 8012850, 7783860,
      9401512, 1512892, 9778395, 11188290, 2076084, 4542246, 15083022,
      855992, 6060408, 7622414, 4674266, 2806909, 6092705, 7918680, 15054412,
      3007848, 9630990, 3674646, 6667090, 2270140, 14051109, 3015305,
      5959644, 14450210, 14924486, 2683783, 13118716, 6099353, 1175918,
      9665478, 6564587, 2854054, 16247390, 2875343, 4871993, 4597677,
      5008521, 14810735, 3582612, 14686694, 11116437, 10854613, 8963814,
      1140681, 3074997, 3489683, 13999860, 12144513, 7027007, 4747430,
      7277886, 1912207, 7683065, 5357934, 10994567, 15335013, 4364503,
      3067657, 13229707, 13752501, 11331882, 727197, 3336526, 10737997,
      50987, 12669869, 10715975, 446532, 1198790, 7493585, 5078486, 15425850,
      7390173, 15512709, 6528751, 9771753, 14324262, 3424264, 12011415,
      6406605, 13514844, 4608120, 11758375, 10612259, 3540118, 3562947,
      1972733, 12479223, 3349575, 11244212, 14243269, 7453954, 13492356,
      6249366, 10075498, 14034494, 9855697, 3488520, 10311919
    >>,
    \* random.seed(131)
    <<
      5292124, 6248664, 12916247, 8522803, 1469466, 6591767, 4812106, 284673,
      6551057, 13071401, 15026955, 2066744, 5840031, 9479909, 9963105,
      16196956, 1683265, 11910700, 2883527, 3727046, 11730122, 11590416,
      9278260, 11457429, 12085965, 16206495, 7411245, 16401490, 8204122,
      12555803, 3363550, 15881053, 3748045, 9128641, 853240, 12125269,
      2815520, 15141800, 7560897, 12191473, 9928415, 13178895, 12374814,
      3472683, 10784235, 7276331, 13682568, 12433693, 12368964, 1106315,
      147219, 12273021, 14896484, 12901672, 8335644, 4436276, 7308751,
      10781461, 1469823, 13702194, 2571995, 13024833, 1107147, 2778240,
      1544995, 15216733, 13206502, 10041447, 6262971, 2048349, 13072116,
      9087098, 16517228, 16604891, 10450197, 6356715, 3446020, 16031088,
      2666853, 10386769, 16186383, 16291127, 8261126, 13425439, 5642022,
      490658, 16029207, 12203792, 2843660, 7626136, 14725038, 4727454,
      169772, 21512, 7334331, 2499809, 5640248, 12618485, 16328688, 1298964,
      7621952, 8997522, 9520861, 3232366, 13541818, 7252118, 10533967,
      1245562, 13944944, 8586436, 13705943, 8295007, 1128355, 12650848,
      2317309, 15340015, 6829507, 8602804, 6597267, 6480992, 13722264,
      7721568, 2385534, 4706869, 16554995, 16327627, 13617614, 6122962,
      10910689, 2157008, 4348786, 12987503, 13113975, 1278812, 11851270,
      11805243, 14476750, 1000420, 5086490, 641219, 13230514, 1657071,
      3412059, 6258295, 7606805, 13139641, 2305170, 7636974, 4402120,
      2620092, 15875665, 7013452, 16759692, 8443806, 2609217, 8471624,
      10873423, 1037295, 79619, 8704784, 6035992, 4438323, 7361595, 3563721,
      3873155, 331733, 739987, 6318596, 11251419, 9736073, 15090646, 3754204,
      3376269, 7439350, 6231552, 15037173, 12488859, 2024310, 12010888,
      4586778, 11780199, 8039397, 5326336, 10115287, 15904913, 8818031,
      13325507, 11397385, 13526974, 9836793, 10519556, 14789717, 2893320,
      13223634, 15872371, 5348377, 9942127, 6953187, 8350751, 3837995,
      11390103, 566512, 12979522, 12243563, 2669432, 9871888, 3036173,
      12017436, 5916438, 14996549, 2268131, 1424140, 11787213, 11726113,
      2472857, 8746205, 10400859, 14063973, 10377116, 6320242, 12565921,
      14689307, 13270963, 13808117, 8838828, 9440264, 3095654, 7980336,
      15082189, 4105111, 10510862, 10140623, 8416895, 4926092, 14570363,
      1551722, 13670102, 12692197, 9909148, 1640356, 6565368, 8859639,
      3476790, 15674913, 937978, 16699462, 759162, 4835390
    >>,
    \* random.seed(132)
    <<
      6919407, 2613450, 6840441, 1044389, 15061887, 2868718, 15067467,
      696274, 5152302, 2055509, 14236885, 13027984, 16076538, 13297250,
      14024526, 9167480, 417830, 4163384, 16444517, 7546605, 4354519,
      3403071, 13406409, 7596324, 2867118, 11043422, 9676335, 16310160,
      6730447, 4148518, 11571429, 11092345, 12896394, 15936679, 14167958,
      8344028, 13941690, 15273155, 14658016, 15058561, 10402589, 13385992,
      8921980, 14740970, 13117767, 13725014, 10430878, 9381341, 13342503,
      6277649, 6410599, 15288361, 16041216, 9888398, 14941490, 5600391,
      3286167, 11558266, 13338180, 1060258, 9196470, 685383, 10137180,
      13859259, 13443078, 5932695, 11294978, 8904959, 11221827, 1509580,
      14801566, 9917378, 2546110, 6024223, 1138450, 14678134, 4805452,
      4319964, 6020036, 13259395, 2201523, 10711183, 713240, 12485492,
      8096771, 15421823, 14425933, 3902297, 13047417, 1742276, 7660402,
      2097742, 14629914, 3326594, 9889581, 13698520, 9735000, 14875354,
      1025197, 14179862, 5323735, 5790931, 6401760, 1280752, 1375088,
      11952501, 6130014, 11122373, 10030218, 11590873, 1390768, 16377383,
      4555681, 7934502, 12999582, 2353484, 6710417, 10733069, 10940143,
      11021957, 2620480, 13804831, 3416669, 2345967, 13235143, 2556742,
      12767423, 10002217, 1817784, 7009837, 10420393, 4021937, 12948774,
      174742, 12703941, 7910533, 12539414, 10863934, 13385922, 9269559,
      6450410, 3110541, 10265935, 14072386, 4422331, 7619669, 9138332,
      2022275, 12590246, 2175830, 14303047, 342253, 12386567, 13421843,
      11456182, 3734873, 1868574, 141868, 15206704, 8211077, 6477006,
      9460233, 14521666, 6779156, 1202435, 15060964, 9967747, 11230140,
      8277867, 8027941, 16191864, 3442995, 12813756, 13027099, 8523097,
      11998724, 12330210, 12901480, 7736307, 1886424, 15912415, 6201141,
      2824646, 2798541, 15616713, 2542998, 15342841, 12061431, 4881035,
      12172161, 12153762, 4146220, 13861048, 15901003, 11795045, 14975695,
      15461307, 3174979, 9008106, 735505, 7928417, 15834364, 16216538,
      5658133, 8475642, 1130243, 10481244, 11835278, 13807927, 915117,
      1607702, 8662269, 4303068, 11107050, 10989757, 2245832, 5330946,
      6665698, 13626165, 8459761, 8720228, 8825735, 15507877, 11205130,
      8147097, 13361399, 3547819, 15160014, 11152381, 6147430, 1750784,
      4387090, 12061523, 13318278, 6111297, 11995330, 5069520, 5684694,
      2655031, 1574939, 8039714, 3332914, 11895151, 1647362, 12214190,
      14590487, 14259945, 1671714
    >>,
    \* random.seed(133)
    <<
      8285137, 5947288, 8092555, 5407774, 12900885, 10327884, 13560819,
      12948181, 5682118, 14793851, 9143602, 11636962, 10417192, 12451039,
      11901985, 14649485, 15941787, 541911, 12483332, 1357326, 14662397,
      4718753, 11128626, 15431425, 4426312, 16275386, 4795264, 3667123,
      112952, 6320215, 8449100, 7097723, 2655886, 1514033, 4795713, 14412540,
      2510415, 16652461, 120109, 15239288, 12890969, 6827657, 5433276,
      15589090, 10957858, 9492348, 15186270, 3039939, 4871170, 1174975,
      9689767, 16093690, 2154709, 10427282, 1968703, 16506764, 11769663,
      5426431, 1426999, 15354862, 16573824, 5510663, 4257964, 8290372,
      14734887, 1147933, 16189667, 14509495, 1202045, 8456721, 6710998,
      14102679, 8309165, 14741705, 3892609, 3043129, 4231364, 1725800,
      6578715, 8286909, 7953321, 11805839, 4506682, 6734409, 10157217,
      14827797, 9105872, 13985064, 9212800, 12225188, 603717, 15693791,
      15277800, 9704855, 6638833, 7072112, 6755482, 9230109, 3029843,
      7391805, 4677323, 3912956, 9972143, 6584683, 7132985, 4429479,
      15531605, 6660946, 7842237, 15115699, 6166826, 8915116, 14068003,
      15232836, 13650572, 15927176, 16178386, 497462, 14305334, 4131113,
      9615872, 3965735, 13924104, 6197837, 2417600, 627591, 1689118, 2954973,
      95902, 320977, 11210185, 1614099, 13336813, 15610087, 3375650, 3297929,
      12646831, 5558437, 4084061, 8286259, 14222306, 16630280, 2727558,
      10617584, 4711853, 5533149, 5092574, 1585492, 7793216, 12871528,
      13044508, 11011530, 8478810, 15792922, 13845954, 7187687, 1184187,
      10988718, 10795669, 2445281, 1134999, 9242036, 1318899, 846322,
      7038699, 5109392, 14581831, 146452, 11334999, 1416940, 12034360,
      15576383, 3016966, 12457389, 15699346, 11588518, 15189863, 7701964,
      9574098, 10751859, 13581639, 15226840, 8752586, 14058638, 13738979,
      7038171, 6855032, 12290479, 9660792, 14999902, 4379882, 11664732,
      11074426, 3710811, 9007380, 2944912, 13060630, 11002539, 16076135,
      11037535, 14879386, 9812098, 10859241, 1678761, 11799777, 7496109,
      2066111, 13858732, 208563, 6708655, 2954274, 9222788, 9567493,
      14063425, 5698758, 797550, 5914503, 9671075, 4258109, 7817390,
      10274554, 2154875, 3756689, 5465761, 4673019, 6897803, 506, 1722826,
      14651451, 2957426, 5053084, 693803, 12693279, 15502510, 3852344,
      5513871, 10647987, 3312729, 9607058, 11645867, 5857485, 1980902,
      9660485, 6654128, 9732094, 10985977, 4234753, 10838975
    >>,
    \* random.seed(134)
    <<
      8122164, 8776642, 3334777, 12176985, 16506758, 9348610, 15284748,
      12099882, 12517658, 10705683, 14020213, 2126425, 451122, 10993931,
      12801354, 8154384, 1852932, 16234102, 6509479, 3755006, 8229681,
      16045774, 4177779, 10027272, 9156704, 16717214, 7644320, 16000188,
      511314, 1722586, 4821147, 12242941, 8661778, 16190933, 13261672,
      12860649, 12172572, 13468138, 4625021, 5092960, 15203732, 1127711,
      12525102, 9763489, 11572830, 10688063, 4404078, 10738710, 14646008,
      11247262, 15442891, 12085522, 6404307, 11687861, 11951999, 6003798,
      15421340, 15900119, 15442731, 14348683, 11144316, 4359100, 11159141,
      6020218, 2359724, 16531218, 14020847, 16509383, 12174308, 15203604,
      8754279, 6559367, 14359502, 11974057, 13740407, 10393867, 15986763,
      4835465, 12248989, 5036643, 8437535, 5515756, 9626963, 15477598,
      799803, 1109784, 6587893, 3738155, 4112465, 11639803, 2306176,
      11803953, 1654247, 16248941, 13405341, 2976351, 1623445, 15151412,
      5964204, 3907217, 10501053, 4425952, 5367695, 7083860, 10569986,
      3366256, 4240170, 12135487, 11654986, 2585138, 11323526, 12888487,
      13517247, 169202, 6614639, 13973666, 3046847, 3174067, 6229006,
      10412653, 13307520, 10267716, 1441509, 11944129, 15512954, 8861540,
      13018756, 8542253, 13860006, 1224351, 2769498, 10459116, 11880416,
      1229282, 1805193, 6780338, 3706988, 3064854, 3429371, 10015719,
      15597411, 2797021, 13029057, 10315555, 8780438, 15306972, 8579721,
      1763015, 10432132, 3298495, 12620670, 5392650, 6014839, 8486743,
      6429000, 15830640, 15731783, 14418484, 3840143, 5322197, 161213,
      1322792, 14423040, 14665201, 15836704, 2753701, 7233073, 8313652,
      11576319, 8699562, 1473775, 15657491, 731874, 5861060, 90899, 15433913,
      906900, 5872136, 6956945, 3046130, 12159, 16022774, 11093504, 4155189,
      7706407, 13618196, 3945455, 11325261, 12833370, 4348782, 8342087,
      13104587, 12465615, 1001505, 471657, 16606051, 9220932, 16601125,
      13969616, 7841917, 9320001, 8439164, 12318617, 1501524, 819677,
      14115895, 4250961, 13638833, 12766424, 1681536, 8445491, 5505748,
      5731863, 14935869, 4586826, 7412219, 6365216, 16267533, 12922827,
      7188275, 14160662, 10304345, 12662601, 14500486, 5060128, 14530049,
      10887459, 5954638, 4160956, 7640412, 15245515, 12441322, 7405656,
      9681400, 3689669, 13169080, 14665359, 7790079, 10845915, 8162042,
      4743756, 14976550, 5199301, 1552322, 4417196, 1012480, 12961198, 6678010
    >>,
    \* random.seed(135)
    <<
      11232933, 6267689, 10493623, 10792745, 9777326, 4636054, 8185502,
      4931350, 13772454, 11841553, 2024602, 7591695, 4746520, 195923,
      9953646, 13958624, 2558086, 6265573, 10674826, 4439256, 6059078,
      5799904, 14081975, 5177336, 4560193, 9910446, 14050578, 14180559,
      15655534, 14609025, 4714572, 14040927, 4324676, 4643311, 528501,
      3230700, 4748907, 38954, 4235146, 16591317, 8766769, 15883151,
      16423353, 1336261, 4954961, 4420168, 12062723, 12775875, 5961295,
      11265785, 5747623, 1291278, 3854573, 12890036, 14158507, 16273524,
      16230912, 1381148, 3744131, 13692300, 12045862, 3044232, 12045488,
      13304985, 11656422, 13698933, 6526232, 9542167, 1976022, 870082,
      12057502, 15345244, 7935247, 10791859, 7123021, 12239490, 13327737,
      5129630, 2705433, 577076, 4019749, 12357521, 5089655, 2357685,
      16630200, 4045027, 8095527, 14978709, 8821388, 2519912, 13376641,
      15950088, 5533922, 4702366, 1367272, 3056892, 4816398, 14167734,
      1348373, 3158622, 12350535, 10532755, 13661554, 2939180, 6759081,
      16432286, 551046, 8276330, 1427910, 14978587, 2051227, 11024479,
      3078000, 4442050, 8662406, 3911894, 211238, 14574198, 7493538, 7558697,
      6238950, 11520000, 2605047, 9898049, 3645772, 7990988, 11140959,
      6634211, 11597099, 6053824, 3595266, 12832690, 8279245, 10153288,
      14589654, 3952857, 8911757, 2279490, 13476135, 14009779, 15626980,
      13591357, 7729253, 3103069, 2395541, 9241600, 287002, 10118387,
      10231779, 7995724, 16101973, 16432075, 10261438, 14884301, 5672579,
      7549540, 1490811, 11100739, 12823849, 7000005, 1497026, 4197099,
      10547108, 13955152, 12594319, 9818296, 9689047, 14475733, 14094031,
      9803996, 1427399, 14073885, 1835495, 3628084, 16369853, 10114641,
      8539507, 1401480, 4704782, 5544400, 12626002, 16461293, 14364435,
      6966834, 5651436, 6139995, 3485952, 11478900, 3640514, 7903280,
      10914194, 15679206, 14921518, 2813782, 4320808, 11384296, 9011407,
      6417434, 2396062, 629465, 4387231, 7181320, 7128571, 11321222, 8314640,
      5653943, 1059037, 9959078, 14736366, 3989632, 14880051, 13765755,
      12686100, 5208450, 16399504, 12123607, 9369721, 10123591, 4487250,
      4336647, 3649643, 1460850, 7972921, 12958867, 5388940, 7075718,
      9345805, 16380234, 6681873, 16256014, 7749638, 5009259, 4980647,
      5323519, 10360225, 8742193, 6713183, 4328938, 10535282, 8904170,
      5924394, 2882405, 13225693, 13885433, 2792063, 15532229, 16022062,
      2638437
    >>
    >>

\* the bits of a 32-bit word that are tabulated
WordBits == 32 - 8

\* 2^k
RECURSIVE Pow2(_)
Pow2(k) == IF k = 0 THEN 1 ELSE 2 * Pow2(k - 1)

\* the seeds considered
Seeds == 0..(NumSeeds - 1)

\* random.seed(a): the state of the generator, with no word taken yet
seed(a) == [seed |-> a, k |-> 0]

\* the state of the generator after it has given one more word
Advance(r) == [r EXCEPT !.k = @ + 1]

\* getrandbits(k): the leading k bits of the next word, k <= WordBits
getrandbits(r, k) == MersenneTwister[r.seed + 1][r.k + 1] \div Pow2(WordBits - k)

\* n.bit_length() of n >= 0
RECURSIVE bit_length(_)
bit_length(n) == IF n = 0 THEN 0 ELSE 1 + bit_length(n \div 2)

\* _randbelow(n): getrandbits(n.bit_length()) again and again until the value
\* is below n; the value and the state of the generator after it
RECURSIVE _randbelow(_, _)
_randbelow(r, n) ==
    LET v == getrandbits(r, bit_length(n))
    IN IF v < n THEN [value |-> v, rng |-> Advance(r)]
       ELSE _randbelow(Advance(r), n)

\* random.randint(a, b) = a + _randbelow(b - a + 1)
randint(r, a, b) ==
    LET d == _randbelow(r, b - a + 1)
    IN [value |-> a + d.value, rng |-> d.rng]

\* random.random() = (a >> 5) * 2^26 + (b >> 6) over 2^53 for the next two
\* words a and b: the grid cell floor(random.random() * GridSize), which the
\* leading WordBits bits of a decide
random(r) == (getrandbits(r, WordBits) * GridSize) \div Pow2(WordBits)

\* the state of the generator after random.random()
AfterRandom(r) == Advance(Advance(r))

\* random.random() * dist, without the shift that centres the square
RandomCoordinateUncentred(v, dist) == (v * dist) \div GridSize

\* (random.random() * dist) - (dist / 2), for random.random() = v / GridSize
RandomCoordinate(v, dist) == ((v * dist) \div GridSize) - (dist \div 2)

----------------------------------------------------------------------------
(* CreateWorld.spawn_golfballs *)

\* the commented-out retry test, restored: break only inside the drop-off area
LoopBreaksInDropoff(p) == p.x < 8521017 /\ p.y < -9901380

\* the exit of the inner 'while True' loop: the retry test is commented out and
\* the break is unconditional
LoopBreaks(p) == TRUE

\* point = Point(); point.x = pose['x']; point.y = pose['y']; point.z = pose['z']
Point(p) == [x |-> p.x, y |-> p.y, z |-> p.z]

\* the list when every entry holds the one shared pose object instead of a
\* Point of its own
AppendGolfballShared(gbs, p, name) ==
    [i \in 1..(Len(gbs) + 1) |->
        <<Point(p), IF i <= Len(gbs) THEN gbs[i][2] ELSE name>>]

\* self.golfballs.insert(0, (point, name))
InsertGolfballFirst(gbs, p, name) == <<<<Point(p), name>>>> \o gbs

\* self.golfballs.append((point, name))
AppendGolfball(gbs, p, name) == Append(gbs, <<Point(p), name>>)

----------------------------------------------------------------------------
(* CreateWorld.publish_golfballs *)

\* request.golfballs, request.names = zip(*self.golfballs)
PosesRequest(gbs) ==
    [golfballs |-> [i \in 1..Len(gbs) |-> gbs[i][1]],
     names     |-> [i \in 1..Len(gbs) |-> gbs[i][2]]]

\* publish_golfballs_results without the test of response.success
publish_golfballs_results_unchecked(i, outcome) ==
    /\ callbacks' = Append(callbacks, <<"poses", i>>)
    /\ log' = IF outcome # "exception" THEN log
              ELSE Append(log, [level |-> "fatal",
                                text |-> "Could not send golf ball poses", name |-> <<>>])
    /\ UNCHANGED <<spawn_calls, send_calls, golfballs>>

\* publish_golfballs_results(future): a fatal message when future.result()
\* raises or the response has success false
publish_golfballs_results(i, outcome) ==
    /\ callbacks' = Append(callbacks, <<"poses", i>>)
    /\ log' = IF outcome = "success" THEN log
              ELSE Append(log, [level |-> "fatal",
                                text |-> "Could not send golf ball poses", name |-> <<>>])
    /\ UNCHANGED <<spawn_calls, send_calls, golfballs>>

\* spawn_result issuing the request again when future.result() raises
spawn_result_retrying(i, outcome) ==
    /\ callbacks' = Append(callbacks, <<"spawn", i>>)
    /\ log' = IF outcome = "exception"
              THEN Append(log, [level |-> "warn", text |-> "Could not spawn",
                                name |-> spawn_calls[i].name])
              ELSE Append(log, [level |-> "info", text |-> "Result",
                                name |-> spawn_calls[i].name])
    /\ spawn_calls' = IF outcome = "exception" THEN Append(spawn_calls, spawn_calls[i])
                      ELSE spawn_calls
    /\ UNCHANGED <<send_calls, golfballs>>

\* spawn_result(future): the result as an info message, or a warning when
\* future.result() raises
spawn_result(i, outcome) ==
    /\ callbacks' = Append(callbacks, <<"spawn", i>>)
    /\ log' = IF outcome = "exception"
              THEN Append(log, [level |-> "warn", text |-> "Could not spawn",
                                name |-> spawn_calls[i].name])
              ELSE Append(log, [level |-> "info", text |-> "Result",
                                name |-> spawn_calls[i].name])
    /\ UNCHANGED <<spawn_calls, send_calls, golfballs>>

\* the ways the future of a SpawnEntity call completes
SpawnOutcomes == {"result", "exception"}

\* the ways the future of a SendGolfBallPoses call completes: a response with
\* success true or false, or an exception
PosesOutcomes == {"success", "failure", "exception"}

----------------------------------------------------------------------------
(* spawn_demo: the state of a run before its first step *)

WorldFresh ==
    /\ tape_i = 0
    /\ num_golfballs = 0
    /\ ball_i = 0
    /\ pose = EmptyDict
    /\ iters = 0
    /\ draws = 0
    /\ golfballs = <<>>
    /\ spawn_calls = <<>>
    /\ spawn_futures = <<>>
    /\ send_calls = <<>>
    /\ send_futures = <<>>
    /\ callbacks = <<>>
    /\ spins = 0
    /\ log = <<>>

----------------------------------------------------------------------------
(* minimal client: sys.argv and int() *)

\* a character is its code point: 45 '-', 49 '1', 32 ' ', 95 '_',
\* 1635 ARABIC-INDIC DIGIT THREE, 8195 EM SPACE
Alphabet == {45, 49, 32, 95, 1635, 8195}

\* the command-line arguments: sequences of at most MaxArgLen characters
Args == UNION {[1..n -> Alphabet] : n \in 0..MaxArgLen}

\* sys.argv[1:]: the script reads argv[1] and argv[2] only
ArgLists == UNION {[1..n -> Args] : n \in 0..2}

\* the characters int() reads as decimal digits come in runs of ten, 0 to 9:
\* the first code point of each run, '0' (48) and the zeros of the other scripts
DigitZeros ==
    {48, 1632, 1776, 1984, 2406, 2534, 2662, 2790, 2918, 3046, 3174, 3302,
     3430, 3558, 3664, 3792, 3872, 4160, 4240, 6112, 6160, 6470, 6608, 6784,
     6800, 6992, 7088, 7232, 7248, 42528, 43216, 43264, 43472, 43504, 43600,
     44016, 65296, 66720, 68912, 69734, 69872, 69942, 70096, 70384, 70736,
     70864, 71248, 71360, 71472, 71904, 72016, 72784, 73040, 73120, 92768,
     92864, 93008, 120782, 120792, 120802, 120812, 120822, 123200, 123632,
     125264, 130032}

IsDigit(c) == \E z \in DigitZeros : c \in z..(z + 9)

DigitValue(c) == LET z == CHOOSE z \in DigitZeros : c \in z..(z + 9) IN c - z

\* the characters int() strips from both ends of its argument: tab to carriage
\* return, space, and the whitespace above U+007F; U+001C .. U+001F are not
\* among them
Whitespace ==
    {9, 10, 11, 12, 13, 32, 133, 160, 5760, 8192, 8193, 8194, 8195, 8196,
     8197, 8198, 8199, 8200, 8201, 8202, 8232, 8233, 8239, 8287, 12288}

RECURSIVE LStrip(_)
LStrip(s) == IF s # <<>> /\ s[1] \in Whitespace THEN LStrip(Tail(s)) ELSE s

RECURSIVE RStrip(_)
RStrip(s) == IF s # <<>> /\ s[Len(s)] \in Whitespace
             THEN RStrip(SubSeq(s, 1, Len(s) - 1)) ELSE s

\* the argument of int() without the whitespace around it
Strip(s) == RStrip(LStrip(s))

\* an int literal without the surrounding whitespace and the sign '+' or '-'
Unsigned(s) == LET t == Strip(s)
               IN IF t # <<>> /\ t[1] \in {43, 45} THEN Tail(t) ELSE t

\* whether int(s) returns rather than raises ValueError: whitespace, an
\* optional sign, then digits with single underscores allowed between them
IsIntLiteral(s) ==
    LET u == Unsigned(s)
    IN /\ u # <<>>
       /\ \A i \in 1..Len(u) : IsDigit(u[i]) \/ u[i] = 95
       /\ IsDigit(u[1])
       /\ IsDigit(u[Len(u)])
       /\ \A i \in 1..(Len(u) - 1) : ~(u[i] = 95 /\ u[i + 1] = 95)

RECURSIVE Magnitude(_)
\* the number a sequence of digits spells
Magnitude(ds) == IF ds = <<>> THEN 0
                 ELSE 10 * Magnitude(SubSeq(ds, 1, Len(ds) - 1)) + DigitValue(ds[Len(ds)])

\* int(s) of an int literal
int(s) == LET m == Magnitude(SelectSeq(Unsigned(s), IsDigit))
          IN IF Strip(s)[1] = 45 THEN 0 - m ELSE m

ClientFresh ==
    /\ argv = <<>>
    /\ req = [a |-> 0, b |-> 0]
    /\ future = [state |-> "none", sum |-> 0]
    /\ reply = "none"
    /\ rclpy_ok = TRUE
    /\ cli_calls = <<>>
    /\ teardown = <<>>
    /\ c_log = <<>>

----------------------------------------------------------------------------
(* spawn_demo: the state after rclpy.init() and the creation of the node and
   its /spawn_entity client; the minimal client is not run *)

InitWorld ==
    /\ pc = "wait_spawn_service"
    /\ \E a \in Seeds : rng = seed(a)
    /\ WorldFresh
    /\ c_pc = "not_run"
    /\ ClientFresh

\* __init__: while not self.client.wait_for_service(1.0), then the start
\* message, self.golfballs = [] and the call of create_world. The messages
\* logged while waiting, one per failed wait, are not kept in log.
WaitForSpawnService ==
    /\ UNCHANGED clientVars
    /\ pc = "wait_spawn_service"
    /\ \E available \in BOOLEAN :
         IF available
         THEN /\ log' = Append(log, [level |-> "info", text |-> "node has started",
                                     name |-> <<>>])
              /\ golfballs' = <<>>
              /\ pc' = "spawn_grass"
         ELSE UNCHANGED <<pc, log, golfballs>>
    /\ UNCHANGED <<tape_i, num_golfballs, ball_i, pose, iters, draws, rng,
                   spawn_calls, spawn_futures, send_calls, send_futures,
                   callbacks, spins>>

\* spawn_grass
spawn_grass ==
    /\ UNCHANGED clientVars
    /\ pc = "spawn_grass"
    /\ spawn(<<"grass">>, "grass", [x |-> 0, y |-> 0, z |-> 0])
    /\ pc' = "spawn_tape"
    /\ tape_i' = 0
    /\ UNCHANGED <<num_golfballs, ball_i, pose, iters, draws, rng, golfballs,
                   send_calls, send_futures, callbacks, spins, log>>

\* spawn_tape: coordinates
TapeCoordinates ==
    <<[x |-> 9898041, y |-> -8527939, z |-> 0],
      [x |-> 8521017, y |-> -9901380, z |-> 0,
       orientation |-> euler_to_quaternion(0, 0, 90)]>>

\* spawn_tape: one iteration of 'for i in range(2)'
spawn_tape ==
    /\ UNCHANGED clientVars
    /\ pc = "spawn_tape"
    /\ tape_i < 2
    /\ spawn(TapeName(tape_i), "tape", TapeCoordinates[tape_i + 1])
    /\ tape_i' = tape_i + 1
    /\ pc' = IF tape_i + 1 < 2 THEN "spawn_tape" ELSE "spawn_robot"
    /\ UNCHANGED <<num_golfballs, ball_i, pose, iters, draws, rng, golfballs,
                   send_calls, send_futures, callbacks, spins, log>>

\* spawn_robot
spawn_robot ==
    /\ UNCHANGED clientVars
    /\ pc = "spawn_robot"
    /\ spawn(<<"turtlebot">>, "robot",
             [x |-> 11 * Metre, y |-> -11 * Metre, z |-> 0,
              orientation |-> euler_to_quaternion(0, 0, 180)])
    /\ pc' = "spawn_golfballs"
    /\ UNCHANGED <<tape_i, num_golfballs, ball_i, pose, iters, draws, rng,
                   golfballs, send_calls, send_futures, callbacks, spins, log>>

RECURSIVE Log2(_)
\* the binary exponent of an integer m >= 1
Log2(m) == IF m < 2 THEN 0 ELSE 1 + Log2(m \div 2)

RECURSIVE Pow2Mod(_, _)
\* 2^k modulo m
Pow2Mod(k, m) == IF k = 0 THEN 1 % m ELSE (2 * Pow2Mod(k - 1, m)) % m

RECURSIVE ShiftTo(_, _)
\* the least j with n * 2^j >= m, for n >= 1
ShiftTo(n, m) == IF n >= m THEN 0 ELSE 1 + ShiftTo(2 * n, m)

\* round(x, 2) of the float nearest to a length of x micrometres, x >= 0. Off a
\* half centimetre it is the nearest centimetre. A half centimetre is n / 200 m
\* with n odd, and the float holds its first 53 bits, rounded: what is left
\* beyond them, in 200ths of the last bit, tells whether the float lies at,
\* below or above the half; at it, round goes to the even centimetre
RoundToCentimetre(x) ==
    LET cm == Metre \div 100
        q == x \div cm
        n == x \div (cm \div 2)
        k == IF n >= 200 THEN 52 - Log2(n \div 200) ELSE 52 + ShiftTo(n, 200)
        left == (Pow2Mod(k, 200) * (n % 200)) % 200
    IN IF x % cm # cm \div 2 THEN ((x + (cm \div 2)) \div cm) * cm
       ELSE IF left = 0 THEN (IF q % 2 = 0 THEN q ELSE q + 1) * cm
       ELSE IF left < 100 THEN q * cm
       ELSE (q + 1) * cm

\* spawn_border: poses
BorderPoses ==
    LET DISTANCE_TO_EDGE == RoundToCentimetre(feet_to_meters(FieldFeet))
        BORDER_WIDTH == (3 * Metre) \div 10
        PLACEMENT == (DISTANCE_TO_EDGE + BORDER_WIDTH) \div 2
    IN <<[x |-> 0, y |-> PLACEMENT, z |-> 0],
         [x |-> PLACEMENT, y |-> 0, z |-> 0,
          orientation |-> euler_to_quaternion(0, 0, 90)],
         [x |-> 0, y |-> 0 - PLACEMENT, z |-> 0],
         [x |-> 0 - PLACEMENT, y |-> 0, z |-> 0,
          orientation |-> euler_to_quaternion(0, 0, 90)]>>

\* spawn_border, called on a constructed node: four requests, border0 ..
\* border3. Nothing calls it: its call in create_world is commented out, so
\* it is no step of a run and no disjunct of Next.
spawn_border ==
    /\ UNCHANGED clientVars
    /\ pc \in {"spin_once", "shutdown", "done"}
    /\ spawn_calls' = spawn_calls \o
         [i \in 1..Len(BorderPoses) |->
            SpawnRequest(BorderName(i - 1), "border", BorderPoses[i])]
    /\ spawn_futures' = spawn_futures \o [i \in 1..Len(BorderPoses) |-> "pending"]
    /\ UNCHANGED <<pc, tape_i, num_golfballs, ball_i, pose, iters, draws, rng,
                   golfballs, send_calls, send_futures, callbacks, spins, log>>

\* spawn_golfballs: num_golfballs, pose and the entry of the for loop
spawn_golfballs ==
    /\ UNCHANGED clientVars
    /\ pc = "spawn_golfballs"
    /\ LET n == randint(rng, MinGolfballs, MaxGolfballs)
       IN /\ num_golfballs' = n.value
          /\ rng' = n.rng
          /\ pc' = IF 0 < n.value THEN "draw" ELSE "wait_poses_service"
    /\ pose' = [z |-> 0]
    /\ ball_i' = 0
    /\ iters' = 0
    /\ UNCHANGED <<tape_i, draws, golfballs, spawn_calls, spawn_futures,
                   send_calls, send_futures, callbacks, spins, log>>

\* spawn_golfballs: one iteration of the inner 'while True' loop
draw_position ==
    /\ UNCHANGED clientVars
    /\ pc = "draw"
    /\ LET dist == feet_to_meters(FieldFeet)
           vx == random(rng)
           vy == random(AfterRandom(rng))
           p == DictSet(DictSet(pose, "x", RandomCoordinate(vx, dist)),
                        "y", RandomCoordinate(vy, dist))
       IN /\ rng' = AfterRandom(AfterRandom(rng))
          /\ pose' = p
          /\ pc' = IF LoopBreaks(p) THEN "record" ELSE "draw"
    /\ iters' = iters + 1
    /\ draws' = draws + 1
    /\ UNCHANGED <<tape_i, num_golfballs, ball_i, golfballs, spawn_calls,
                   spawn_futures, send_calls, send_futures, callbacks, spins, log>>

\* record_and_spawn leaving the for loop one ball early
record_and_spawn_early_exit ==
    /\ UNCHANGED clientVars
    /\ pc = "record"
    /\ LET name == BallName(ball_i)
       IN /\ golfballs' = AppendGolfball(golfballs, pose, name)
          /\ spawn(name, "golfball", pose)
    /\ ball_i' = ball_i + 1
    /\ iters' = 0
    /\ pc' = IF ball_i + 1 < num_golfballs - 1 THEN "draw" ELSE "wait_poses_service"
    /\ UNCHANGED <<tape_i, num_golfballs, pose, draws, rng, send_calls,
                   send_futures, callbacks, spins, log>>

\* spawn_golfballs: the rest of one iteration of 'for i in range(num_golfballs)'
record_and_spawn ==
    /\ UNCHANGED clientVars
    /\ pc = "record"
    /\ LET name == BallName(ball_i)
       IN /\ golfballs' = AppendGolfball(golfballs, pose, name)
          /\ spawn(name, "golfball", pose)
    /\ ball_i' = ball_i + 1
    /\ iters' = 0
    /\ pc' = IF ball_i + 1 < num_golfballs THEN "draw" ELSE "wait_poses_service"
    /\ UNCHANGED <<tape_i, num_golfballs, pose, draws, rng, send_calls,
                   send_futures, callbacks, spins, log>>

\* publish_golfballs: while not client.wait_for_service(1.0)
WaitForPosesService ==
    /\ UNCHANGED clientVars
    /\ pc = "wait_poses_service"
    /\ \E available \in BOOLEAN :
         pc' = IF available THEN "publish_golfballs" ELSE "wait_poses_service"
    /\ UNCHANGED <<tape_i, num_golfballs, ball_i, pose, iters, draws, rng,
                   golfballs, spawn_calls, spawn_futures, send_calls, send_futures,
                   callbacks, spins, log>>

\* publish_golfballs: the request, call_async and add_done_callback; the
\* unpacking of zip(*[]) raises ValueError
publish_golfballs ==
    /\ UNCHANGED clientVars
    /\ pc = "publish_golfballs"
    /\ IF Len(golfballs) = 0
       THEN /\ pc' = "crashed"
            /\ UNCHANGED <<send_calls, send_futures>>
       ELSE /\ send_calls' = Append(send_calls, PosesRequest(golfballs))
            /\ send_futures' = Append(send_futures, "pending")
            /\ pc' = "spin_once"
    /\ UNCHANGED <<tape_i, num_golfballs, ball_i, pose, iters, draws, rng,
                   golfballs, spawn_calls, spawn_futures, callbacks, spins, log>>

\* the executor handles at most one unit of work. Handling the response of a
\* call completes its future; the future's done-callback then is invoked, or is
\* left scheduled as a later unit of work.
HandleOneUnit ==
    \/ UNCHANGED <<spawn_futures, send_futures, callbacks, log, spawn_calls,
                   send_calls, golfballs>>
    \/ \E i \in 1..Len(spawn_futures), outcome \in SpawnOutcomes, invoked \in BOOLEAN :
         /\ spawn_futures[i] = "pending"
         /\ spawn_futures' = [spawn_futures EXCEPT ![i] = outcome]
         /\ IF invoked
            THEN spawn_result(i, outcome)
            ELSE UNCHANGED <<callbacks, log, spawn_calls, send_calls, golfballs>>
         /\ UNCHANGED send_futures
    \/ \E i \in 1..Len(send_futures), outcome \in PosesOutcomes, invoked \in BOOLEAN :
         /\ send_futures[i] = "pending"
         /\ send_futures' = [send_futures EXCEPT ![i] = outcome]
         /\ IF invoked
            THEN publish_golfballs_results(i, outcome)
            ELSE UNCHANGED <<callbacks, log, spawn_calls, send_calls, golfballs>>
         /\ UNCHANGED spawn_futures

\* rclpy.spin(CreateWorld()): the executor keeps handling units of work
spin ==
    /\ UNCHANGED clientVars
    /\ pc = "spin_once"
    /\ \E more \in BOOLEAN : pc' = IF more /\ spins < 2 THEN "spin_once" ELSE "shutdown"
    /\ spins' = spins + 1
    /\ HandleOneUnit
    /\ UNCHANGED <<tape_i, num_golfballs, ball_i, pose, iters, draws, rng>>

\* main: rclpy.spin_once(CreateWorld())
spin_once ==
    /\ UNCHANGED clientVars
    /\ pc = "spin_once"
    /\ pc' = "shutdown"
    /\ spins' = spins + 1
    /\ HandleOneUnit
    /\ UNCHANGED <<tape_i, num_golfballs, ball_i, pose, iters, draws, rng>>

\* main: rclpy.shutdown()
shutdown ==
    /\ UNCHANGED clientVars
    /\ pc = "shutdown"
    /\ pc' = "done"
    /\ UNCHANGED <<tape_i, num_golfballs, ball_i, pose, iters, draws, rng,
                   golfballs, spawn_calls, spawn_futures, send_calls, send_futures,
                   callbacks, spins, log>>

----------------------------------------------------------------------------
(* minimal client: the state after rclpy.init() and the creation of the node
   and its add_two_ints client; spawn_demo is not run *)

InitClient ==
    /\ c_pc = "wait_service"
    /\ argv \in ArgLists
    /\ req = [a |-> 0, b |-> 0]
    /\ future = [state |-> "none", sum |-> 0]
    /\ reply = "none"
    /\ rclpy_ok = TRUE
    /\ cli_calls = <<>>
    /\ teardown = <<>>
    /\ c_log = <<>>
    /\ pc = "not_run"
    /\ rng = seed(0)
    /\ WorldFresh

\* __init__: while not self.cli.wait_for_service(timeout_sec=1.0), then
\* self.req = AddTwoInts.Request()
WaitForService ==
    /\ c_pc = "wait_service"
    /\ \E available \in BOOLEAN :
         IF available
         THEN /\ req' = [a |-> 0, b |-> 0]
              /\ c_pc' = "send_request"
         ELSE UNCHANGED <<c_pc, req>>
    /\ UNCHANGED <<argv, future, reply, rclpy_ok, cli_calls, teardown, c_log>>
    /\ UNCHANGED worldVars

\* send_request: sys.argv[1] or sys.argv[2] raises IndexError when missing and
\* int() raises ValueError on a non-literal; main() does not catch either
send_request ==
    /\ c_pc = "send_request"
    /\ IF Len(argv) < 1 \/ ~IsIntLiteral(argv[1])
       THEN /\ c_pc' = "crashed"
            /\ UNCHANGED <<req, future, cli_calls>>
       ELSE IF Len(argv) < 2 \/ ~IsIntLiteral(argv[2])
       THEN /\ c_pc' = "crashed"
            /\ req' = [req EXCEPT !.a = int(argv[1])]
            /\ UNCHANGED <<future, cli_calls>>
       ELSE /\ req' = [a |-> int(argv[1]), b |-> int(argv[2])]
            /\ cli_calls' = Append(cli_calls, req')
            /\ future' = [state |-> "pending", sum |-> 0]
            /\ c_pc' = "while"
    /\ UNCHANGED <<argv, reply, rclpy_ok, teardown, c_log>>
    /\ UNCHANGED worldVars

\* the loop test leaving main() without destroy_node when the context is down
while_ok_skipping_destroy ==
    /\ c_pc = "while"
    /\ c_pc' = IF rclpy_ok THEN "spin_once" ELSE "shutdown"
    /\ UNCHANGED <<argv, req, future, reply, rclpy_ok, cli_calls, teardown, c_log>>
    /\ UNCHANGED worldVars

\* main: while rclpy.ok()
while_ok ==
    /\ c_pc = "while"
    /\ c_pc' = IF rclpy_ok THEN "spin_once" ELSE "destroy_node"
    /\ UNCHANGED <<argv, req, future, reply, rclpy_ok, cli_calls, teardown, c_log>>
    /\ UNCHANGED worldVars

\* main: rclpy.spin_once(minimal_client): the executor handles the reply of the
\* service if it has arrived, which completes the future, or returns without
\* it; after a shutdown request it may return without handling anything
client_spin_once ==
    /\ c_pc = "spin_once"
    /\ c_pc' = "if_done"
    /\ \/ /\ reply # "none"
          /\ future.state = "pending"
          /\ future' = IF reply = "response"
                       THEN [state |-> "result", sum |-> cli_calls[1].a + cli_calls[1].b]
                       ELSE [state |-> "exception", sum |-> 0]
       \/ /\ reply = "none" \/ ~rclpy_ok
          /\ UNCHANGED future
    /\ UNCHANGED <<argv, req, reply, rclpy_ok, cli_calls, teardown, c_log>>
    /\ UNCHANGED worldVars

\* what main logs for a done future
OutcomeMessage(f, r) ==
    IF f.state = "exception"
    THEN [text |-> "Service call failed", a |-> 0, b |-> 0, sum |-> 0]
    ELSE [text |-> "Result of add_two_ints", a |-> r.a, b |-> r.b, sum |-> f.sum]

\* self.future.done()
done(f) == f.state \in {"result", "exception"}

\* if_done without the break
if_done_without_break ==
    /\ c_pc = "if_done"
    /\ IF done(future)
       THEN c_log' = Append(c_log, OutcomeMessage(future, req))
       ELSE UNCHANGED c_log
    /\ c_pc' = "while"
    /\ UNCHANGED <<argv, req, future, reply, rclpy_ok, cli_calls, teardown>>
    /\ UNCHANGED worldVars

\* main: if minimal_client.future.done(): log the outcome and break
if_done ==
    /\ c_pc = "if_done"
    /\ IF done(future)
       THEN /\ c_log' = Append(c_log, OutcomeMessage(future, req))
            /\ c_pc' = "destroy_node"
       ELSE /\ c_pc' = "while"
            /\ UNCHANGED c_log
    /\ UNCHANGED <<argv, req, future, reply, rclpy_ok, cli_calls, teardown>>
    /\ UNCHANGED worldVars

\* main: minimal_client.destroy_node()
destroy_node ==
    /\ c_pc = "destroy_node"
    /\ teardown' = Append(teardown, "destroy_node")
    /\ c_pc' = "shutdown"
    /\ UNCHANGED <<argv, req, future, reply, rclpy_ok, cli_calls, c_log>>
    /\ UNCHANGED worldVars

\* main: rclpy.shutdown()
client_shutdown ==
    /\ c_pc = "shutdown"
    /\ teardown' = Append(teardown, "shutdown")
    /\ rclpy_ok' = FALSE
    /\ c_pc' = "done"
    /\ UNCHANGED <<argv, req, future, reply, cli_calls, c_log>>
    /\ UNCHANGED worldVars

\* the add_two_ints service answers the request, with a response or an error
ServiceReplies ==
    /\ c_pc \in {"while", "spin_once", "if_done"}
    /\ reply = "none"
    /\ \E r \in {"response", "error"} : reply' = r
    /\ UNCHANGED <<c_pc, argv, req, future, rclpy_ok, cli_calls, teardown, c_log>>
    /\ UNCHANGED worldVars

\* the context is shut down from outside while main polls (a shutdown before
\* the loop is entered is not modelled)
ExternalShutdown ==
    /\ c_pc \in {"while", "spin_once", "if_done"}
    /\ rclpy_ok
    /\ rclpy_ok' = FALSE
    /\ UNCHANGED <<c_pc, argv, req, future, reply, cli_calls, teardown, c_log>>
    /\ UNCHANGED worldVars

----------------------------------------------------------------------------
(* Specifications *)

Init == InitWorld

Next ==
    \/ WaitForSpawnService
    \/ spawn_grass
    \/ spawn_tape
    \/ spawn_robot
    \/ spawn_golfballs
    \/ draw_position
    \/ record_and_spawn
    \/ WaitForPosesService
    \/ publish_golfballs
    \/ spin_once
    \/ shutdown

\* spawn_demo
Spec == Init /\ [][Next]_vars

ClientNext ==
    \/ WaitForService
    \/ send_request
    \/ while_ok
    \/ client_spin_once
    \/ if_done
    \/ destroy_node
    \/ client_shutdown
    \/ ServiceReplies
    \/ ExternalShutdown

\* the minimal client: main() keeps running except while it waits for the
\* service to appear, and the request is eventually answered or the context
\* eventually shut down
ClientSpec ==
    /\ InitClient
    /\ [][ClientNext]_vars
    /\ WF_vars(send_request)
    /\ WF_vars(while_ok)
    /\ WF_vars(client_spin_once)
    /\ WF_vars(if_done)
    /\ WF_vars(destroy_node)
    /\ WF_vars(client_shutdown)
    /\ WF_vars(ServiceReplies \/ ExternalShutdown)

----------------------------------------------------------------------------
(* Properties of spawn_demo *)

\* the names of the SpawnEntity requests issued so far, in issue order
SpawnNames == [i \in 1..Len(spawn_calls) |-> spawn_calls[i].name]

\* the fixed part of the world: grass, tape0, tape1, turtlebot
FixedNames == <<<<"grass">>, <<"tape", "0">>, <<"tape", "1">>, <<"turtlebot">>>>

RECURSIVE Spelled(_)
\* the number the digits of a name spell
Spelled(ds) == IF ds = <<>> THEN 0
               ELSE 10 * Spelled(SubSeq(ds, 1, Len(ds) - 1))
                    + (CHOOSE d \in 0..9 : Digit(d) = ds[Len(ds)])

\* ball{i} read back: the number its digits spell
BallNumber(name) == Spelled(Tail(name))

\* grass, tape0, tape1, turtlebot, ball0 .. ball{n-1}
IsWorldOrder(names, n) ==
    /\ Len(names) = Len(FixedNames) + n
    /\ \A i \in 1..Len(FixedNames) : names[i] = FixedNames[i]
    /\ \A i \in 1..n :
         LET name == names[Len(FixedNames) + i]
         IN /\ Head(name) = "ball"
            /\ Len(name) \in 2..3
            /\ name[2] # "0" \/ Len(name) = 2
            /\ \A j \in 2..Len(name) : name[j] \in {Digit(d) : d \in 0..9}
            /\ BallNumber(name) = i - 1

AfterPublish == {"spin_once", "shutdown", "done"}

\* at most one SendGolfBallPoses request, issued at publish_golfballs, and the
\* SpawnEntity requests issued so far in the order of the world
SentOnceInWorldOrder ==
    /\ Len(send_calls) <= 1
    /\ pc \in AfterPublish => Len(send_calls) = 1
    /\ pc \notin AfterPublish => Len(send_calls) = 0
    /\ Len(send_calls) = 1 => IsWorldOrder(SpawnNames, num_golfballs)
    /\ Len(send_calls) = 0 =>
         \/ Len(spawn_calls) <= Len(FixedNames) /\
            \A i \in 1..Len(spawn_calls) : SpawnNames[i] = FixedNames[i]
         \/ IsWorldOrder(SpawnNames, Len(spawn_calls) - Len(FixedNames))

\* C1: the SendGolfBallPoses request is issued exactly once per run, and only
\* once every SpawnEntity request of the run has been issued, in the order
\* grass, tape0, tape1, turtlebot, ball0 .. ball{N-1}; no SpawnEntity request
\* is issued after it
C1_SendOnceAfterAllSpawns ==
    /\ []SentOnceInWorldOrder
    /\ [][/\ Len(spawn_calls') >= Len(spawn_calls)
           /\ SubSeq(spawn_calls', 1, Len(spawn_calls)) = spawn_calls
           /\ Len(send_calls) = 1 =>
                spawn_calls' = spawn_calls /\ send_calls' = send_calls]_vars

C1_Witness ==
    /\ pc = "done"
    /\ Len(send_calls) = 1
    /\ Len(spawn_calls) = 4 + 37

\* the request sent holds the whole list
BatchAssembled ==
    Len(send_calls) >= 1 =>
        LET request == send_calls[1]
        IN /\ num_golfballs \in 30..60
           /\ ball_i = num_golfballs
           /\ Len(request.golfballs) = num_golfballs
           /\ Len(request.names) = num_golfballs
           /\ \A i \in 1..num_golfballs :
                /\ Head(request.names[i]) = "ball"
                /\ \A j \in 2..Len(request.names[i]) : request.names[i][j] \in {Digit(d) : d \in 0..9}
                /\ BallNumber(request.names[i]) = i - 1
           /\ Len(golfballs) = num_golfballs
           /\ \A i \in 1..num_golfballs :
                /\ golfballs[i][1] = request.golfballs[i]
                /\ golfballs[i][2] = request.names[i]

\* C2: when the SendGolfBallPoses request is issued the list is complete:
\* request.golfballs and request.names both have length N, the number of golf
\* balls chosen, 30 <= N <= 60, request.names[i] is ball{i}, and self.golfballs
\* stays what was sent
C2_BatchAssembledBeforeSend ==
    /\ []BatchAssembled
    /\ [][Len(send_calls) >= 1 =>
            golfballs' = golfballs /\ send_calls' = send_calls]_vars

C2_Witness ==
    /\ pc = "done"
    /\ Len(send_calls) = 1
    /\ Len(send_calls[1].names) = 60
    /\ send_calls[1].names[60] = <<"ball", "5", "9">>
    /\ callbacks # <<>>

\* the SpawnEntity request of ball i-1 (the i-th ball)
BallCall(i) == spawn_calls[Len(FixedNames) + i]

\* every recorded point and every forwarded pose is the position of a request
PosesMatchSpawns ==
    /\ \A i \in 1..Len(golfballs) :
         /\ Len(spawn_calls) >= Len(FixedNames) + i
         /\ golfballs[i][2] = BallCall(i).name
         /\ golfballs[i][1] = BallCall(i).position
    /\ \A k \in 1..Len(send_calls) :
         /\ Len(send_calls[k].golfballs) = Len(spawn_calls) - Len(FixedNames)
         /\ \A i \in 1..Len(send_calls[k].golfballs) :
              /\ send_calls[k].names[i] = BallCall(i).name
              /\ send_calls[k].golfballs[i] = BallCall(i).position

\* C3: every recorded point, and every pose forwarded in the
\* SendGolfBallPoses request, is the initial position of the SpawnEntity
\* request of the ball of the same name, whatever later balls draw
C3_ForwardedPosesAreSpawnedPoses ==
    /\ []PosesMatchSpawns
    /\ [][/\ Len(golfballs') >= Len(golfballs)
           /\ SubSeq(golfballs', 1, Len(golfballs)) = golfballs
           /\ Len(spawn_calls') >= Len(spawn_calls)
           /\ SubSeq(spawn_calls', 1, Len(spawn_calls)) = spawn_calls]_vars

C3_Witness ==
    /\ Len(send_calls) = 1
    /\ \E i, j \in 1..Len(send_calls[1].golfballs) :
         /\ i < j
         /\ send_calls[1].golfballs[i] # send_calls[1].golfballs[j]
         /\ send_calls[1].golfballs[i] = BallCall(i).position

\* C4: the inner while loop runs once for every golf ball, whatever is drawn:
\* spawn_golfballs ends after exactly N draws and N spawn requests
C4_OneDrawPerBall ==
    /\ iters <= 1
    /\ pc = "record" => iters = 1
    /\ pc = "draw" => iters = 0
    /\ draws = ball_i + iters
    /\ pc \in {"draw", "record"} => Len(spawn_calls) = Len(FixedNames) + ball_i
    /\ pc \in {"wait_poses_service", "publish_golfballs"} \cup AfterPublish =>
         /\ draws = num_golfballs
         /\ Len(spawn_calls) = Len(FixedNames) + num_golfballs

\* a ball drawn inside the drop-off area and one drawn outside it, each after
\* one draw
C4_Witness ==
    /\ pc = "wait_poses_service"
    /\ draws = num_golfballs
    /\ \E i, j \in 1..Len(golfballs) :
         /\ LoopBreaksInDropoff(golfballs[i][1])
         /\ ~LoopBreaksInDropoff(golfballs[j][1])

\* the futures of the run that are done, and all of them
DoneFutures ==
    {<<"spawn", i>> : i \in {j \in 1..Len(spawn_futures) : spawn_futures[j] # "pending"}}
    \cup {<<"poses", i>> : i \in {j \in 1..Len(send_futures) : send_futures[j] # "pending"}}

AllFutures ==
    {<<"spawn", i>> : i \in 1..Len(spawn_futures)}
    \cup {<<"poses", i>> : i \in 1..Len(send_futures)}

StartMessage == [level |-> "info", text |-> "node has started", name |-> <<>>]

\* the run as the spin leaves it
SpawnsNotRetried ==
    pc \in {"shutdown", "done"} =>
        /\ Len(spawn_calls) = 4 + num_golfballs
        /\ Len(spawn_futures) = 4 + num_golfballs
        /\ Len(send_calls) = 1
        /\ Len(golfballs) = num_golfballs
        /\ send_calls[1] = PosesRequest(golfballs)
        /\ \A i \in 1..Len(spawn_futures) :
             (spawn_futures[i] = "exception" /\ callbacks = <<<<"spawn", i>>>>) =>
                 log = <<StartMessage,
                         [level |-> "warn", text |-> "Could not spawn",
                          name |-> spawn_calls[i].name]>>

\* C6: a SpawnEntity future that completes with an exception only gets a
\* warning logged: no request is issued again, the golf-ball list and the
\* request sent stay as they were, and the run issues exactly 4 + N
\* SpawnEntity requests whatever the outcomes of the spawns
C6_NoRetryOfFailedSpawn ==
    /\ []SpawnsNotRetried
    /\ [][pc = "spin_once" =>
            /\ spawn_calls' = spawn_calls
            /\ send_calls' = send_calls
            /\ golfballs' = golfballs]_vars

\* the spawn of a golf ball failed and its done-callback has run
C6_Witness ==
    /\ pc = "done"
    /\ \E i \in 5..Len(spawn_futures) :
         /\ spawn_futures[i] = "exception"
         /\ callbacks = <<<<"spawn", i>>>>
         /\ Len(log) = 2

\* C7: when the done-callback of the SendGolfBallPoses future runs, it logs
\* one fatal message if future.result() raised or the response has success
\* false, and nothing if the response has success true; the request is never
\* sent again
C7_FatalIffSendFailed ==
    /\ Len(send_calls) <= 1
    /\ Len(send_futures) = Len(send_calls)
    /\ \A k \in 1..Len(callbacks) :
         callbacks[k][1] = "poses" =>
             /\ send_futures[callbacks[k][2]] \in {"failure", "exception"} =>
                  log = <<StartMessage,
                          [level |-> "fatal", text |-> "Could not send golf ball poses",
                           name |-> <<>>]>>
             /\ send_futures[callbacks[k][2]] = "success" => log = <<StartMessage>>

\* the response came with success false and the done-callback has run
C7_Witness ==
    /\ callbacks = <<<<"poses", 1>>>>
    /\ send_futures[1] = "failure"
    /\ Len(log) = 2

\* C8: every golf ball is placed in the square of side dist = feet_to_meters(75)
\* centred on the origin: -dist/2 <= x < dist/2, -dist/2 <= y < dist/2 and
\* z = 0, in its SpawnEntity request and in its entry of the golf-ball list
C8_BallsInsideSquare ==
    LET dist == feet_to_meters(75)
        Inside(p) == /\ 0 - (dist \div 2) <= p.x /\ p.x < dist \div 2
                     /\ 0 - (dist \div 2) <= p.y /\ p.y < dist \div 2
                     /\ p.z = 0
    IN /\ \A i \in 1..Len(golfballs) : Inside(golfballs[i][1])
       /\ \A i \in 1..Len(spawn_calls) :
            Head(spawn_calls[i].name) = "ball" => Inside(spawn_calls[i].position)

\* balls at the least and at the greatest coordinate of the grid
C8_Witness ==
    /\ pc = "done"
    /\ \E i, j \in 1..Len(golfballs) :
         /\ golfballs[i][1].x = RandomCoordinate(0, feet_to_meters(75))
         /\ golfballs[i][1].x = 0 - (feet_to_meters(75) \div 2)
         /\ golfballs[j][1].y = RandomCoordinate(GridSize - 1, feet_to_meters(75))
         /\ golfballs[j][1].y > golfballs[i][1].x
         /\ BallCall(j).position.y = golfballs[j][1].y

\* C9: no done-callback runs, and no future completes, before the constructor
\* has issued all 4 + N SpawnEntity requests and the SendGolfBallPoses request;
\* main() spins the executor exactly once before rclpy.shutdown(), so at most
\* one future is handled and at most one done-callback runs
C9_OneSpinBeforeShutdown ==
    /\ pc \notin {"shutdown", "done"} =>
         /\ callbacks = <<>>
         /\ DoneFutures = {}
         /\ spins = 0
    /\ pc \in {"shutdown", "done"} =>
         /\ spins = 1
         /\ Len(spawn_calls) = 4 + num_golfballs
         /\ Len(send_calls) = 1
         /\ Cardinality(AllFutures) = 5 + num_golfballs
    /\ Cardinality(DoneFutures) <= 1
    /\ Len(callbacks) <= 1
    /\ \A k \in 1..Len(callbacks) : callbacks[k] \in DoneFutures

\* a run that is over with callbacks that never ran
C9_Witness ==
    /\ pc = "done"
    /\ Len(callbacks) = 1
    /\ Cardinality(AllFutures \ DoneFutures) >= 34

----------------------------------------------------------------------------
(* Properties of the minimal client *)

InLoop == {"while", "spin_once", "if_done"}

AfterLoop == {"destroy_node", "shutdown", "done"}

\* C5: main() issues one call_async request and then polls: while it is in the
\* loop nothing has been logged; it leaves the loop in the iteration in which
\* the future is found done, logging one message, the sum for a result and the
\* failure for an exception; no second request is issued
C5_OneCallThenPoll ==
    /\ Len(cli_calls) <= 1
    /\ c_pc \in InLoop \cup AfterLoop =>
         /\ Len(cli_calls) = 1
         /\ cli_calls[1] = req
         /\ req = [a |-> int(argv[1]), b |-> int(argv[2])]
    /\ c_pc \in {"wait_service", "send_request", "crashed"} => Len(cli_calls) = 0
    /\ c_pc \in InLoop => c_log = <<>>
    /\ c_pc = "while" => ~done(future)
    /\ c_pc \in AfterLoop =>
         /\ future.state = "result" =>
              c_log = <<[text |-> "Result of add_two_ints", a |-> req.a, b |-> req.b,
                         sum |-> future.sum]>>
         /\ future.state = "exception" =>
              c_log = <<[text |-> "Service call failed", a |-> 0, b |-> 0, sum |-> 0]>>
         /\ future.state = "pending" => c_log = <<>>

C5_Witness ==
    /\ c_pc = "done"
    /\ future.state = "result"
    /\ Len(c_log) = 1
    /\ argv = <<<<8195, 1635>>, <<45, 49>>>>
    /\ c_log[1].a = 3
    /\ c_log[1].b = -1
    /\ c_log[1].sum = 2

\* the loop has been left and main() has torn down what it has reached
TornDown ==
    /\ c_pc = "destroy_node" => teardown = <<>>
    /\ c_pc = "shutdown" => teardown = <<"destroy_node">>
    /\ c_pc = "done" => teardown = <<"destroy_node", "shutdown">>
    /\ c_pc \notin AfterLoop => teardown = <<>>
    /\ c_pc \in AfterLoop =>
         \/ done(future) /\ Len(c_log) = 1
         \/ future.state = "pending" /\ ~rclpy_ok /\ c_log = <<>>

\* C10: every exit from the polling loop is followed by destroy_node() and then
\* rclpy.shutdown(), once each, whether the future completed or rclpy.ok()
\* became false first, and in the latter case nothing is logged; when the
\* request is eventually answered or the context eventually shut down, main()
\* reaches the end of shutdown
C10_LoopExitTearsDown ==
    /\ []TornDown
    /\ (c_pc \in InLoop) ~> (c_pc = "done")

\* main() is over, the context was shut down before the future was done
C10_Witness ==
    /\ c_pc = "done"
    /\ future.state = "pending"
    /\ teardown = <<"destroy_node", "shutdown">>
    /\ c_log = <<>>

====
